---------------------------- MODULE Spec2Model ----------------------------
(***************************************************************************)
(* Representative resolution, holding-chain walk and template rendering of *)
(* the French company search extension (src/src/lib/link-builder.ts).      *)
(*                                                                         *)
(* Texts are sequences of symbols.  A symbol is a string: a brace, a       *)
(* blank, a piece of a placeholder name, or a piece of literal text.       *)
(***************************************************************************)
EXTENDS Integers, Sequences, FiniteSets, TLC

VARIABLES
  composition,   \* resolver machine: the composition object handed to extractRepresentativeInfo
  extractArg,    \* resolver machine: the pouvoirs value as it was when the last call started
  selected,      \* resolver machine: <<>> or <<the pouvoir the last call selected>>
  extracted,     \* resolver machine: <<>> or <<the RepresentativeInfo the last call returned>>
  calls,         \* resolver machine: number of calls made on this composition
  template,      \* renderer machine: the template string handed to renderTemplate
  variables,     \* renderer machine: the TemplateVariables object handed to renderTemplate
  output,        \* renderer machine: the string renderTemplate returned
  rendered,      \* renderer machine: TRUE once renderTemplate has returned
  data,          \* render machine: the CompanyData record both language renders receive
  fetched,       \* render machine: that record as the initial fetch delivered it
  templateOverride, \* render machine: the templateOverride prop of CompanyDetailsView
  outputTemplate,   \* render machine: preferences.outputTemplate
  pc,            \* render machine: per language, where buildMarkdownAsync stands
  firstLevel,    \* render machine: per language, what extractRepresentativeInfo returned
  representative,\* render machine: per language, the local variable `representative`
  walk,          \* render machine: per language, the state of findPhysicalRepresentative
  built,         \* render machine: per language, the variable set handed to renderTemplate
  markdown,      \* render machine: per language, the string buildMarkdownAsync resolved with
  copyMarkdown,  \* copy machine: the markdown handed to markdownToHtml and markdownToPlainText
  copyHtml,      \* copy machine: <<>> or <<the string markdownToHtml returned>>
  copyText,      \* copy machine: <<>> or <<the string markdownToPlainText returned>>
  params,        \* link machine: the params object handed to buildPappersSearchUrl
  pappersUrl,    \* link machine: <<>> (undefined) or <<the URL buildPappersSearchUrl returned>>
  pappersCalled, \* link machine: TRUE once buildPappersSearchUrl has returned
  autoReadClipboard, \* form machine: preferences.autoReadClipboard ?? true
  sirenInput,    \* form machine: SearchForm state sirenInput
  sirenError,    \* form machine: SearchForm state sirenError, "" when undefined
  hasInitialisedFromClipboard, \* form machine: SearchForm state of that name
  formTemplate,  \* form machine: SearchForm state templateOverride
  effects,       \* form machine: the runs of bootstrapFromClipboard not yet returned
  userTyped,     \* form machine: TRUE once onChange has been called by the user's typing
  inputSource,   \* form machine: who set sirenInput last: "initial", "typed" or "clipboard"
  savedEmpty,    \* form machine: TRUE when the last template saved in the editor was empty
  submits,       \* form machine: number of calls of handleAction
  screen,        \* form machine: the view on top of the navigation stack
  detailSiren,   \* form machine: <<>> or <<the siren prop of the CompanyDetail pushed>>
  fetches,       \* form machine: number of company fetches started by useCompanyData
  company,       \* form machine: what useCompanyData returned last: data, isLoading, error
  view           \* form machine: what CompanyDetail returned last

resolverVars == <<composition, extractArg, selected, extracted, calls>>
rendererVars == <<template, variables, output, rendered>>

renderVars == <<data, fetched, templateOverride, outputTemplate, pc, firstLevel, representative,
                walk, built, markdown>>

copyVars == <<copyMarkdown, copyHtml, copyText>>

\* the machines of the user interface around the renders
linkVars == <<params, pappersUrl, pappersCalled>>

formVars == <<autoReadClipboard, sirenInput, sirenError, hasInitialisedFromClipboard,
              formTemplate, effects, userTyped, inputSource, savedEmpty, submits, screen,
              detailSiren, fetches, company, view>>

uiVars == <<copyVars, linkVars, formVars>>

vars == <<composition, extractArg, selected, extracted, calls,
          template, variables, output, rendered,
          data, fetched, templateOverride, outputTemplate, pc, firstLevel, representative,
          walk, built, markdown, copyMarkdown, copyHtml, copyText,
          params, pappersUrl, pappersCalled,
          autoReadClipboard, sirenInput, sirenError, hasInitialisedFromClipboard,
          formTemplate, effects, userTyped, inputSource, savedEmpty, submits, screen,
          detailSiren, fetches, company, view>>

----------------------------------------------------------------------------
(* Bounds *)

MaxPouvoirs == 2      \* longest composition enumerated for the resolver
MaxCalls == 2         \* calls of extractRepresentativeInfo on one composition
MaxPieces == 5        \* pieces a template of the renderer machine is made of
NumSirens == 6        \* identifiers the registry knows
MaxSubmits == 2       \* calls of handleAction in the search form
MaxEffects == 2       \* runs of bootstrapFromClipboard awaited at one time
MaxChars == 5         \* longest markdown text handed to the conversions

----------------------------------------------------------------------------
(* Lookup tables of the collaborators (utils.ts, formatting.ts)            *)

\* FALLBACK_VALUES.REPRESENTATIVE_NAME / REPRESENTATIVE_ROLE: fixed placeholders
FALLBACK_REPRESENTATIVE_NAME == "[[Representative name]]"
FALLBACK_REPRESENTATIVE_ROLE == "[[Representative role]]"

\* role codes that occur in the compositions enumerated
Roles == {"5132", "73", "51", "30", "53", "5141"}

\* getRoleName(code): the Role Registry, French labels
getRoleName(code) ==
  CASE code = "5132" -> "Président"
    [] code = "73"   -> "Président du conseil d'administration"
    [] code = "51"   -> "Gérant"
    [] code = "30"   -> "Directeur général"
    [] code = "53"   -> "Directeur général délégué"
    [] OTHER         -> FALLBACK_REPRESENTATIVE_ROLE

\* getRoleNameEnglishByCode(code): the Role Registry, English labels
getRoleNameEnglishByCode(code) ==
  CASE code = "5132" -> "President"
    [] code = "73"   -> "Chairman of the Board"
    [] code = "51"   -> "Manager"
    [] code = "30"   -> "Chief Executive Officer"
    [] code = "53"   -> "Deputy Chief Executive Officer"
    [] OTHER         -> "[[Role code " \o code \o "]]"

\* surname upper-casing done by formatRepresentativeName
upperCase(nom) ==
  CASE nom = "Dupont"    -> "DUPONT"
    [] nom = "Durand"    -> "DURAND"
    [] nom = "President" -> "PRESIDENT"
    [] nom = "Martin"    -> "MARTIN"
    [] OTHER             -> nom

\* formatRepresentativeName(prenoms, nom): "GIVEN SURNAME"
formatRepresentativeName(prenom, nom) ==
  IF prenom = "" THEN upperCase(nom) ELSE prenom \o " " \o upperCase(nom)

\* identifiers the registry knows; an embedded identifier is usable when it is one of them
sirenOf(i) == "10000000" \o ToString(i)
Sirens == { sirenOf(i) : i \in 1..NumSirens }

\* extractSirenFromEnterprise(entreprise): the embedded identifier when present
\* and well-formed, undefined ("") otherwise
extractSirenFromEnterprise(entreprise) ==
  IF entreprise.siren \in Sirens THEN entreprise.siren ELSE ""

----------------------------------------------------------------------------
(* extractRepresentativeInfo                                               *)

\* A pouvoir: a role code and the descriptors it carries.  kind names the
\* descriptor present: "individu" (new format), "personnePhysique" (old
\* format), "entreprise", or "none".
Pouvoir(role, kind, prenom, nom, genre, siren) ==
  [roleEntreprise |-> role, kind |-> kind, prenom |-> prenom, nom |-> nom,
   genre |-> genre, siren |-> siren]

\* variant: a fallback with a default gender
fallbackGenderM ==
  [name |-> FALLBACK_REPRESENTATIVE_NAME, role |-> FALLBACK_REPRESENTATIVE_ROLE,
   roleCode |-> "", roleEnglish |-> FALLBACK_REPRESENTATIVE_ROLE,
   gender |-> "M", isHolding |-> FALSE, corporateSiren |-> "",
   holdingRepresentative |-> <<>>]

\* the fallback representative of extractRepresentativeInfo
fallback ==
  [name |-> FALLBACK_REPRESENTATIVE_NAME, role |-> FALLBACK_REPRESENTATIVE_ROLE,
   roleCode |-> "", roleEnglish |-> FALLBACK_REPRESENTATIVE_ROLE,
   gender |-> "null", isHolding |-> FALSE, corporateSiren |-> "",
   holdingRepresentative |-> <<>>]

\* (composition?.pouvoirs) || [] followed by the Array.isArray / length test:
\* the list the function works on, <<>> when it returns the fallback at once
pouvoirsOf(c) == IF c.tag = "array" THEN c.items ELSE <<>>

rolePriority == <<"5132", "73", "51", "30", "53">>

\* Array.prototype.indexOf, 0-based, -1 when absent
indexOf(seq, x) ==
  IF \E i \in 1..Len(seq) : seq[i] = x
  THEN (CHOOSE i \in 1..Len(seq) : seq[i] = x /\ \A j \in 1..(i - 1) : seq[j] # x) - 1
  ELSE -1

isPresident(p) == p.roleEntreprise = "5132" \/ p.roleEntreprise = "73"

\* pouvoirs.find(isPresident): index of the first match, 0 when none
findPresident(pouvoirs) ==
  IF \E i \in 1..Len(pouvoirs) : isPresident(pouvoirs[i])
  THEN CHOOSE i \in 1..Len(pouvoirs) :
         isPresident(pouvoirs[i]) /\ \A j \in 1..(i - 1) : ~isPresident(pouvoirs[j])
  ELSE 0

\* variant: a comparator that ranks unlisted codes first
compareFnUnknownFirst(a, b) ==
  LET priorityA == indexOf(rolePriority, a.roleEntreprise)
      priorityB == indexOf(rolePriority, b.roleEntreprise)
  IN  IF priorityA = -1 /\ priorityB = -1 THEN 0
      ELSE IF priorityA = -1 THEN -1
      ELSE IF priorityB = -1 THEN 1
      ELSE priorityA - priorityB

\* the comparator handed to pouvoirs.sort
compareFn(a, b) ==
  LET priorityA == indexOf(rolePriority, a.roleEntreprise)
      priorityB == indexOf(rolePriority, b.roleEntreprise)
  IN  IF priorityA = -1 /\ priorityB = -1 THEN 0
      ELSE IF priorityA = -1 THEN 1
      ELSE IF priorityB = -1 THEN -1
      ELSE priorityA - priorityB

\* Array.prototype.sort is a stable sort: insertion of x behind every element
\* that does not compare greater than it
RECURSIVE insertSorted(_, _)
insertSorted(sorted, x) ==
  IF sorted = <<>> THEN <<x>>
  ELSE IF compareFn(Head(sorted), x) <= 0
       THEN <<Head(sorted)>> \o insertSorted(Tail(sorted), x)
       ELSE <<x>> \o sorted

RECURSIVE sortPouvoirs(_)
sortPouvoirs(pouvoirs) ==
  IF pouvoirs = <<>> THEN <<>>
  ELSE insertSorted(sortPouvoirs(SubSeq(pouvoirs, 1, Len(pouvoirs) - 1)),
                    pouvoirs[Len(pouvoirs)])

\* variant: a selection that looks for "5132" alone
selectPouvoirOnly5132(pouvoirs) ==
  LET i == IF \E k \in 1..Len(pouvoirs) : pouvoirs[k].roleEntreprise = "5132"
           THEN CHOOSE k \in 1..Len(pouvoirs) :
                  pouvoirs[k].roleEntreprise = "5132"
                  /\ \A j \in 1..(k - 1) : pouvoirs[j].roleEntreprise # "5132"
           ELSE 0
  IN  IF i # 0
      THEN [pouvoir |-> pouvoirs[i], after |-> pouvoirs]
      ELSE [pouvoir |-> sortPouvoirs(pouvoirs)[1], after |-> sortPouvoirs(pouvoirs)]

\* variant: a selection that takes the first sorted entry out of the array
selectPouvoirShift(pouvoirs) ==
  LET president == findPresident(pouvoirs)
  IN  IF president # 0
      THEN [pouvoir |-> pouvoirs[president], after |-> pouvoirs]
      ELSE [pouvoir |-> sortPouvoirs(pouvoirs)[1], after |-> Tail(sortPouvoirs(pouvoirs))]

\* the selection step: the pouvoir chosen and the pouvoirs array as the call
\* leaves it (sort works in place, find does not touch the array)
selectPouvoir(pouvoirs) ==
  LET president == findPresident(pouvoirs)
  IN  IF president # 0
      THEN [pouvoir |-> pouvoirs[president], after |-> pouvoirs]
      ELSE [pouvoir |-> sortPouvoirs(pouvoirs)[1], after |-> sortPouvoirs(pouvoirs)]

\* variant: a corporate descriptor without denomination taken as a holding
classifyAnyEntreprise(pouvoir) ==
  LET roleCode == pouvoir.roleEntreprise
  IN  CASE pouvoir.kind = "individu" ->
             [name |-> formatRepresentativeName(pouvoir.prenom, pouvoir.nom),
              role |-> getRoleName(roleCode), roleCode |-> roleCode,
              roleEnglish |-> getRoleNameEnglishByCode(roleCode),
              gender |-> IF pouvoir.genre = "2" THEN "F"
                         ELSE IF pouvoir.genre = "1" THEN "M" ELSE "null",
              isHolding |-> FALSE, corporateSiren |-> "",
              holdingRepresentative |-> <<>>]
        [] pouvoir.kind = "personnePhysique" ->
             [name |-> formatRepresentativeName(pouvoir.prenom, pouvoir.nom),
              role |-> getRoleName(roleCode), roleCode |-> roleCode,
              roleEnglish |-> getRoleNameEnglishByCode(roleCode),
              gender |-> IF pouvoir.genre = "2" THEN "F" ELSE "M",
              isHolding |-> FALSE, corporateSiren |-> "",
              holdingRepresentative |-> <<>>]
        [] pouvoir.kind = "entreprise" ->
             [name |-> IF pouvoir.nom # "" THEN pouvoir.nom
                       ELSE FALLBACK_REPRESENTATIVE_NAME,
              role |-> getRoleName(roleCode), roleCode |-> roleCode,
              roleEnglish |-> getRoleNameEnglishByCode(roleCode),
              gender |-> "null", isHolding |-> TRUE,
              corporateSiren |-> extractSirenFromEnterprise(pouvoir),
              holdingRepresentative |-> <<>>]
        [] OTHER -> fallback

\* the classification of the selected pouvoir
classify(pouvoir) ==
  LET roleCode == pouvoir.roleEntreprise
  IN  CASE pouvoir.kind = "individu" ->
             [name |-> formatRepresentativeName(pouvoir.prenom, pouvoir.nom),
              role |-> getRoleName(roleCode), roleCode |-> roleCode,
              roleEnglish |-> getRoleNameEnglishByCode(roleCode),
              gender |-> IF pouvoir.genre = "2" THEN "F"
                         ELSE IF pouvoir.genre = "1" THEN "M" ELSE "null",
              isHolding |-> FALSE, corporateSiren |-> "",
              holdingRepresentative |-> <<>>]
        [] pouvoir.kind = "personnePhysique" ->
             [name |-> formatRepresentativeName(pouvoir.prenom, pouvoir.nom),
              role |-> getRoleName(roleCode), roleCode |-> roleCode,
              roleEnglish |-> getRoleNameEnglishByCode(roleCode),
              gender |-> IF pouvoir.genre = "2" THEN "F" ELSE "M",
              isHolding |-> FALSE, corporateSiren |-> "",
              holdingRepresentative |-> <<>>]
        [] pouvoir.kind = "entreprise" /\ pouvoir.nom # "" ->
             [name |-> pouvoir.nom,
              role |-> getRoleName(roleCode), roleCode |-> roleCode,
              roleEnglish |-> getRoleNameEnglishByCode(roleCode),
              gender |-> "null", isHolding |-> TRUE,
              corporateSiren |-> extractSirenFromEnterprise(pouvoir),
              holdingRepresentative |-> <<>>]
        [] OTHER -> fallback

\* extractRepresentativeInfo(composition): the representative returned, the
\* pouvoir selected (<<>> when the fallback is returned before selection) and
\* the composition object as the call leaves it
extractRepresentativeInfo(c) ==
  LET pouvoirs == pouvoirsOf(c)
  IN  IF Len(pouvoirs) = 0
      THEN [rep |-> fallback, pouvoir |-> <<>>, composition |-> c]
      ELSE LET s == selectPouvoir(pouvoirs)
           IN  [rep |-> classify(s.pouvoir), pouvoir |-> <<s.pouvoir>>,
                composition |-> [c EXCEPT !.items = s.after]]

----------------------------------------------------------------------------
(* renderTemplate                                                          *)

\* the symbols of the character class [a-zA-Z0-9_]+ : the variable names and
\* the other names that templates of the model use
TemplateVariableNames ==
  { "company_type", "company_name", "company_header", "company_details", "siren",
    "siren_formatted", "legal_form", "legal_form_english", "share_capital",
    "share_capital_raw", "share_capital_with_currency", "share_capital_line",
    "share_capital_currency", "rcs_city", "registration_line", "head_office_address",
    "head_office_line", "representative_name", "representative_role",
    "representative_role_english", "representative_gender",
    "representative_is_holding", "representative_line", "representative_pronoun",
    "representative_verb", "holding_representative_name",
    "holding_representative_role", "holding_representative_gender",
    "holding_representative_pronoun", "holding_representative_verb",
    "holding_representative_role_english", "civility", "first_name", "last_name",
    "full_name", "birth_date", "birth_place", "birth_statement", "ne_word",
    "nationality", "nationality_line", "personal_address", "personal_address_line" }

\* property names every object literal inherits from Object.prototype
ObjectPrototypeNames == {"constructor", "toString", "__proto__"}

NameSymbols == TemplateVariableNames \cup ObjectPrototypeNames \cup {"a", "b", "unknown_name"}

isNameSymbol(c) == c \in NameSymbols

isSpaceSymbol(c) == c = " "

RECURSIVE joinSymbols(_)
joinSymbols(q) == IF q = <<>> THEN "" ELSE Head(q) \o joinSymbols(Tail(q))

\* first position at or after i that does not hold a blank (\s*, greedy)
RECURSIVE skipSpaces(_, _)
skipSpaces(t, i) ==
  IF i <= Len(t) /\ isSpaceSymbol(t[i]) THEN skipSpaces(t, i + 1) ELSE i

\* first position at or after i that does not hold a name symbol ([a-zA-Z0-9_]+, greedy)
RECURSIVE skipName(_, _)
skipName(t, i) ==
  IF i <= Len(t) /\ isNameSymbol(t[i]) THEN skipName(t, i + 1) ELSE i

\* one attempt of /{{\s*([a-zA-Z0-9_]+)\s*}}/ at position i: the three symbol
\* classes are disjoint, so the greedy attempt is the only one
matchAt(t, i) ==
  IF i + 1 <= Len(t) /\ t[i] = "{" /\ t[i + 1] = "{"
  THEN LET a == skipSpaces(t, i + 2)
           b == skipName(t, a)
           c == skipSpaces(t, b)
       IN  IF b > a /\ c + 1 <= Len(t) /\ t[c] = "}" /\ t[c + 1] = "}"
           THEN [ok |-> TRUE, key |-> joinSymbols(SubSeq(t, a, b - 1)), next |-> c + 2]
           ELSE [ok |-> FALSE, key |-> "", next |-> i]
  ELSE [ok |-> FALSE, key |-> "", next |-> i]

\* String(v) of a property inherited from Object.prototype
inheritedText(key) ==
  IF key = "constructor" THEN <<"function Object() { [native code] }">>
  ELSE IF key = "__proto__" THEN <<"[object Object]">>
  ELSE <<"function " \o key \o "() { [native code] }">>

\* the replacer: variables[key], "" when that is undefined.  variables is an
\* object literal, so a name it does not define is looked up on Object.prototype
replacer(vs, key) ==
  IF key \in DOMAIN vs THEN vs[key]
  ELSE IF key \in ObjectPrototypeNames THEN inheritedText(key)
  ELSE <<>>

\* template.replace(regex, replacer) with the g flag: one pass, left to right,
\* resumed behind each match; inserted text is not scanned
RECURSIVE replaceFrom(_, _, _)
replaceFrom(t, vs, i) ==
  IF i > Len(t) THEN <<>>
  ELSE LET m == matchAt(t, i)
       IN  IF m.ok
           THEN replacer(vs, m.key) \o replaceFrom(t, vs, m.next)
           ELSE <<t[i]>> \o replaceFrom(t, vs, i + 1)

\* variant: the output of the pass scanned once more
renderTemplateRescanned(t, vs) == replaceFrom(replaceFrom(t, vs, 1), vs, 1)

renderTemplate(t, vs) == replaceFrom(t, vs, 1)

----------------------------------------------------------------------------
(* Template variables                                                      *)

\* the formatting collaborators (utils.ts, formatting.ts, greffe-lookup.ts),
\* on the record contents the model renders
MISSING_DATA == "[[Missing data]]"
formatSiren(siren) == IF siren = "123456789" THEN "123 456 789" ELSE siren
formatSirenEnglish(siren) == formatSiren(siren)
formatFrenchNumber(n) == IF n = "10000" THEN "10 000,00" ELSE n
formatEnglishNumber(n) == IF n = "10000" THEN "10,000.00" ELSE n
getLegalFormLabel(code) ==
  IF code = "5499" THEN "Société à responsabilité limitée (SARL)"
  ELSE IF code = "1000" THEN "Entrepreneur individuel" ELSE MISSING_DATA
getLegalFormLabelEnglish(label) ==
  IF label = "Société à responsabilité limitée (SARL)" THEN "limited liability"
  ELSE IF label = "Entrepreneur individuel" THEN "sole proprietorship" ELSE label
\* variant: no agreement with the gender
getGenderAgreementMasculine(gender) == "habilité"

getGenderAgreement(gender) == IF gender = "F" THEN "habilitée" ELSE "habilité"
getEnglishAuthorizationPhrase(gender) ==
  [pronoun |-> IF gender = "F" \/ gender = "2" THEN "she" ELSE "he", verb |-> "is"]
getCorporateAuthorizationPhrase == [pronoun |-> "it", verb |-> "is"]
getRepresentativePronoun(genre) == IF genre = "2" THEN "elle" ELSE "il"
getRoleNameEnglish(role) == IF role = "Président" THEN "President" ELSE role

AVAILABLE_TEMPLATE_VARIABLES ==
  [common |-> {"company_type", "siren", "siren_formatted", "company_name", "legal_form",
               "company_header", "company_details"},
   personneMorale |->
     {"legal_form", "legal_form_english", "share_capital", "share_capital_raw",
      "share_capital_with_currency", "share_capital_line", "share_capital_currency",
      "company_header", "company_details", "rcs_city", "registration_line",
      "head_office_address", "head_office_line", "representative_name",
      "representative_role", "representative_role_english", "representative_gender",
      "representative_is_holding", "representative_line", "representative_pronoun",
      "representative_verb", "holding_representative_name",
      "holding_representative_role", "holding_representative_gender",
      "holding_representative_pronoun", "holding_representative_verb",
      "holding_representative_role_english"},
   personnePhysique |->
     {"civility", "first_name", "last_name", "full_name", "birth_date", "birth_place",
      "birth_statement", "ne_word", "nationality", "nationality_line",
      "personal_address", "personal_address_line", "representative_pronoun",
      "representative_verb"}]

\* a string value as a text of one symbol; the empty string is the empty text
txt(str) == IF str = "" THEN <<>> ELSE <<str>>

\* the individual payload the model renders (genre varies)
PersonnePhysique(genre) ==
  [genre |-> genre, prenom |-> "Marie", nom |-> "Martin",
   dateDeNaissance |-> "1980-01-15", lieuDeNaissance |-> "Lyon",
   nationalite |-> "Française", adresse |-> "45 avenue Victor Hugo, 69001 Lyon"]

\* PERSONNE_PHYSIQUE_STRINGS[language]
civility(language, genre) ==
  IF language = "en" THEN (IF genre = "2" THEN "Ms." ELSE "Mr.")
  ELSE (IF genre = "2" THEN "Madame" ELSE "Monsieur")
neWord(language, genre) ==
  IF language = "en" THEN "Born" ELSE (IF genre = "2" THEN "Née" ELSE "Né")
birthStatement(language, ne, date, place) ==
  IF language = "en" THEN <<"Born on ", date, " in ", place>>
  ELSE <<ne, "(e) le ", date, " à ", place>>
nationalityLine(language, nationality) ==
  IF language = "en" THEN <<"Of ", nationality, " nationality">>
  ELSE <<"De nationalité ", nationality>>
addressLine(language, address) ==
  IF language = "en" THEN <<"Residing at ", address>> ELSE <<"Demeurant ", address>>
numberLabel(language) == IF language = "en" THEN "No.: " ELSE "N° : "

\* the object literal `variables` of buildPersonnePhysiqueMarkdown
personnePhysiqueVariableLiteral(companyData, language) ==
  LET desc == companyData.personnePhysique[1]
      civilite == civility(language, desc.genre)
      prenom == desc.prenom
      nom == desc.nom
      fullName == IF prenom = "" /\ nom = "" THEN FALLBACK_REPRESENTATIVE_NAME
                  ELSE IF nom = "" THEN prenom
                  ELSE IF prenom = "" THEN nom ELSE prenom \o " " \o nom
      ne == neWord(language, desc.genre)
      birth == birthStatement(language, ne, desc.dateDeNaissance, desc.lieuDeNaissance)
      nationality == nationalityLine(language, desc.nationalite)
      demeurant == desc.adresse
      personalAddressLine == addressLine(language, demeurant)
      sirenFormatted == IF language = "en" THEN formatSirenEnglish(companyData.siren)
                        ELSE formatSiren(companyData.siren)
      legalForm == IF companyData.formeJuridique # "" THEN getLegalFormLabel(companyData.formeJuridique) ELSE ""
      authorization == getEnglishAuthorizationPhrase(desc.genre)
      representativeVerb == IF language = "en" THEN authorization.verb ELSE "est"
      companyDetails == birth \o <<"\n">> \o nationality \o <<"\n">> \o personalAddressLine
                        \o <<"\n", numberLabel(language), sirenFormatted>>
  IN  [company_type |-> <<"personne_physique">>,
       company_name |-> <<fullName>>,
       company_header |-> <<civilite, " ", fullName>>,
       company_details |-> companyDetails,
       siren |-> <<companyData.siren>>,
       siren_formatted |-> <<sirenFormatted>>,
       legal_form |-> txt(legalForm),
       legal_form_english |-> txt(getLegalFormLabelEnglish(legalForm)),
       civility |-> <<civilite>>,
       first_name |-> txt(prenom),
       last_name |-> txt(nom),
       full_name |-> <<fullName>>,
       birth_date |-> <<desc.dateDeNaissance>>,
       birth_place |-> <<desc.lieuDeNaissance>>,
       birth_statement |-> birth,
       ne_word |-> <<ne>>,
       nationality |-> <<desc.nationalite>>,
       nationality_line |-> nationality,
       personal_address |-> <<demeurant>>,
       personal_address_line |-> personalAddressLine,
       share_capital |-> <<>>,
       share_capital_raw |-> <<>>,
       share_capital_with_currency |-> <<>>,
       share_capital_line |-> <<>>,
       share_capital_currency |-> <<"€">>,
       rcs_city |-> <<>>,
       registration_line |-> <<>>,
       head_office_address |-> <<demeurant>>,
       head_office_line |-> personalAddressLine,
       representative_name |-> <<fullName>>,
       representative_role |-> <<FALLBACK_REPRESENTATIVE_ROLE>>,
       representative_role_english |-> <<FALLBACK_REPRESENTATIVE_ROLE>>,
       representative_gender |-> txt(desc.genre),
       representative_is_holding |-> <<"false">>,
       representative_line |-> <<>>,
       representative_pronoun |-> <<getRepresentativePronoun(desc.genre)>>,
       representative_verb |-> <<representativeVerb>>,
       holding_representative_name |-> <<>>,
       holding_representative_role |-> <<>>,
       holding_representative_gender |-> <<>>,
       holding_representative_pronoun |-> <<>>,
       holding_representative_role_english |-> <<>>,
       holding_representative_verb |-> <<>>]

\* a record without one of its keys
withoutKey(f, k) == [x \in DOMAIN f \ {k} |-> f[x]]

\* variant: a variable set that lacks holding_representative_verb
personnePhysiqueVariablesNoHoldingVerb(companyData, language) ==
  withoutKey(personnePhysiqueVariableLiteral(companyData, language), "holding_representative_verb")

\* the variable set buildPersonnePhysiqueMarkdown hands to renderTemplate
personnePhysiqueVariables(companyData, language) ==
  personnePhysiqueVariableLiteral(companyData, language)

\* variant: no lookup of the role code in the Role Registry
resolveEnglishRoleWithoutRegistry(roleValue, roleCodeValue, explicitEnglish) ==
  IF explicitEnglish # "" /\ explicitEnglish # FALLBACK_REPRESENTATIVE_ROLE
  THEN explicitEnglish
  ELSE IF roleValue # "" THEN getRoleNameEnglish(roleValue)
       ELSE FALLBACK_REPRESENTATIVE_ROLE

\* resolveEnglishRole(roleValue, roleCodeValue, explicitEnglish); "" is undefined
resolveEnglishRole(roleValue, roleCodeValue, explicitEnglish) ==
  IF explicitEnglish # "" /\ explicitEnglish # FALLBACK_REPRESENTATIVE_ROLE
  THEN explicitEnglish
  ELSE IF roleCodeValue # "" /\ getRoleNameEnglishByCode(roleCodeValue) # ""
       THEN getRoleNameEnglishByCode(roleCodeValue)
       ELSE IF roleValue # "" THEN getRoleNameEnglish(roleValue)
            ELSE FALLBACK_REPRESENTATIVE_ROLE

\* PERSONNE_MORALE_STRINGS_FR
representativeLineFr(name, role, genderAgreement) ==
  <<"Représentée aux fins des présentes par ", name, " en sa qualité de ", role,
    ", dûment ", genderAgreement, ".">>

holdingLineFr(holdingName, holdingRole) ==
  <<"Représentée aux fins des présentes par ", holdingName, " en tant que ",
    holdingRole, ".">>

\* variant: the holding-only sentence in place of the one with a tail
holdingWithRepresentativeLineFrWithoutTail(holdingName, holdingRole, physicalName, physicalRole, genderAgreement) ==
  holdingLineFr(holdingName, holdingRole)

holdingWithRepresentativeLineFr(holdingName, holdingRole, physicalName, physicalRole, genderAgreement) ==
  <<"Représentée aux fins des présentes par la société ", holdingName, " en tant que ",
    holdingRole, ", elle-même représentée par ", physicalName, " en tant que ",
    physicalRole, ", dûment ", genderAgreement, ".">>

\* the three English sentences of createPersonneMoraleTemplateVariables
holdingWithRepresentativeLineEn(holdingName, holdingRole, physicalName, physicalRole, pronoun, verb) ==
  <<"Represented by the company ", holdingName, ", its ", holdingRole,
    ", itself represented by ", physicalName, ", ", physicalRole, ", who warrants that ",
    pronoun, " ", verb, " duly authorized for the purposes herein set out,">>

holdingLineEn(holdingName, holdingRole, pronoun, verb) ==
  <<"Represented by the company ", holdingName, ", its ", holdingRole,
    ", which warrants that ", pronoun, " ", verb,
    " duly authorized for the purposes herein set out,">>

representativeLineEn(name, role, pronoun, verb) ==
  <<"Represented by ", name, ", its ", role, ", who warrants that ", pronoun, " ",
    verb, " duly authorized for the purposes herein set out,">>

\* the representative sentence and the pronoun / verb pairs chosen with it
representativeSentence(rep, language) ==
  LET hasTail == rep.holdingRepresentative # <<>>
      physicalRep == rep.holdingRepresentative[1]
      representativeRoleEnglishResolved ==
        resolveEnglishRole(rep.role, rep.roleCode,
                           rep.roleEnglish)
  IN  IF language = "en"
      THEN IF rep.isHolding /\ hasTail
           THEN LET a == getEnglishAuthorizationPhrase(physicalRep.gender)
                IN  [line |-> holdingWithRepresentativeLineEn(
                                rep.name, representativeRoleEnglishResolved,
                                physicalRep.name,
                                resolveEnglishRole(physicalRep.role, physicalRep.roleCode,
                                                   physicalRep.roleEnglish),
                                a.pronoun, a.verb),
                     form |-> "holdingWithRepresentative",
                     representativePronoun |-> a.pronoun, representativeVerb |-> a.verb,
                     holdingPronoun |-> a.pronoun, holdingVerb |-> a.verb]
           ELSE IF rep.isHolding
           THEN LET a == getCorporateAuthorizationPhrase
                IN  [line |-> holdingLineEn(rep.name,
                                            representativeRoleEnglishResolved,
                                            a.pronoun, a.verb),
                     form |-> "holding",
                     representativePronoun |-> a.pronoun, representativeVerb |-> a.verb,
                     holdingPronoun |-> a.pronoun, holdingVerb |-> a.verb]
           ELSE LET a == getEnglishAuthorizationPhrase(rep.gender)
                IN  [line |-> representativeLineEn(rep.name,
                                                   representativeRoleEnglishResolved,
                                                   a.pronoun, a.verb),
                     form |-> "rep",
                     representativePronoun |-> a.pronoun, representativeVerb |-> a.verb,
                     holdingPronoun |-> "", holdingVerb |-> ""]
      ELSE IF rep.isHolding /\ hasTail
           THEN [line |-> holdingWithRepresentativeLineFr(
                            rep.name, rep.role, physicalRep.name,
                            physicalRep.role, getGenderAgreement(physicalRep.gender)),
                 form |-> "holdingWithRepresentative",
                 representativePronoun |-> "", representativeVerb |-> "",
                 holdingPronoun |-> "", holdingVerb |-> ""]
           ELSE IF rep.isHolding
           THEN [line |-> holdingLineFr(rep.name, rep.role),
                 form |-> "holding",
                 representativePronoun |-> "", representativeVerb |-> "",
                 holdingPronoun |-> "", holdingVerb |-> ""]
           ELSE [line |-> representativeLineFr(rep.name, rep.role,
                                               getGenderAgreement(rep.gender)),
                 form |-> "rep",
                 representativePronoun |-> "", representativeVerb |-> "",
                 holdingPronoun |-> "", holdingVerb |-> ""]

\* createPersonneMoraleTemplateVariables(companyData, rep, language)
createPersonneMoraleTemplateVariables(companyData, rep, language) ==
  LET personneMorale == companyData.personneMorale[1]
      isEnglish == language = "en"
      sirenFormatted == IF isEnglish THEN formatSirenEnglish(companyData.siren)
                        ELSE formatSiren(companyData.siren)
      legalForm == IF companyData.formeJuridique # "" THEN getLegalFormLabel(companyData.formeJuridique) ELSE ""
      legalFormEnglish == getLegalFormLabelEnglish(legalForm)
      denomination == IF personneMorale.denomination # "" THEN personneMorale.denomination
                      ELSE MISSING_DATA
      shareCapitalRaw == IF personneMorale.montantCapital # "" THEN personneMorale.montantCapital
                         ELSE MISSING_DATA
      shareCapitalFrench == IF shareCapitalRaw # MISSING_DATA
                            THEN formatFrenchNumber(shareCapitalRaw) ELSE shareCapitalRaw
      shareCapitalEnglish == IF shareCapitalRaw # MISSING_DATA
                             THEN formatEnglishNumber(shareCapitalRaw) ELSE shareCapitalRaw
      shareCapitalWithCurrencyFrench ==
        IF shareCapitalFrench # MISSING_DATA THEN shareCapitalFrench \o " €"
        ELSE shareCapitalFrench
      shareCapitalWithCurrencyEnglish ==
        IF shareCapitalEnglish # MISSING_DATA THEN "€" \o shareCapitalEnglish
        ELSE shareCapitalEnglish
      address == personneMorale.adresse
      rcsCity == personneMorale.rcsCity
      frenchLegalForm == IF legalForm # "" THEN legalForm ELSE MISSING_DATA
      shareCapitalLine ==
        IF isEnglish
        THEN <<"A ", legalFormEnglish, " (*", frenchLegalForm,
               "*) company, with a share capital of ", shareCapitalWithCurrencyEnglish, ",">>
        ELSE <<frenchLegalForm, " au capital de ", shareCapitalWithCurrencyFrench>>
      headOfficeLine ==
        IF isEnglish THEN <<"Having its head office located at ", address, ",">>
        ELSE <<"Dont le siège social est situé ", address>>
      registrationLine ==
        IF isEnglish
        THEN <<"Registered under number ", formatSirenEnglish(companyData.siren), " with the ",
               rcsCity, " Trade and Companies Register,">>
        ELSE <<"Immatriculée au RCS de ", rcsCity, " sous le n° ", sirenFormatted>>
      companyHeader ==
        IF isEnglish THEN <<"**", denomination, "**,">>
        ELSE <<"**La société ", denomination, "**">>
      sentence == representativeSentence(rep, language)
      companyDetails ==
        IF isEnglish
        THEN shareCapitalLine \o <<"\n">> \o headOfficeLine \o <<"\n">> \o registrationLine
        ELSE shareCapitalLine \o <<"\n">> \o registrationLine \o <<"\n">> \o headOfficeLine
      hasTail == rep.holdingRepresentative # <<>>
      tail == rep.holdingRepresentative[1]
      holdingName == IF rep.isHolding /\ hasTail THEN tail.name ELSE ""
      holdingRole == IF rep.isHolding /\ hasTail THEN tail.role ELSE ""
      holdingGender == IF rep.isHolding /\ hasTail /\ tail.gender # "null"
                       THEN tail.gender ELSE ""
      holdingPronoun == IF rep.isHolding THEN sentence.holdingPronoun ELSE ""
      representativeRoleEnglish ==
        resolveEnglishRole(rep.role, rep.roleCode,
                           rep.roleEnglish)
      holdingRoleEnglish ==
        IF rep.isHolding
        THEN IF hasTail
             THEN resolveEnglishRole(tail.role, tail.roleCode, tail.roleEnglish)
             ELSE representativeRoleEnglish
        ELSE ""
      representativeVerbValue ==
        IF sentence.representativeVerb # "" THEN sentence.representativeVerb
        ELSE IF isEnglish THEN "is" ELSE ""
      holdingVerbValue == IF rep.isHolding THEN sentence.holdingVerb ELSE ""
  IN  [company_type |-> <<"personne_morale">>,
       company_name |-> <<denomination>>,
       company_header |-> companyHeader,
       company_details |-> companyDetails,
       siren |-> <<companyData.siren>>,
       siren_formatted |-> <<sirenFormatted>>,
       legal_form |-> txt(legalForm),
       legal_form_english |-> txt(legalFormEnglish),
       share_capital |-> <<IF isEnglish THEN shareCapitalEnglish ELSE shareCapitalFrench>>,
       share_capital_raw |-> <<shareCapitalRaw>>,
       share_capital_with_currency |->
         <<IF isEnglish THEN shareCapitalWithCurrencyEnglish
           ELSE shareCapitalWithCurrencyFrench>>,
       share_capital_line |-> shareCapitalLine,
       share_capital_currency |-> <<"€">>,
       rcs_city |-> <<rcsCity>>,
       registration_line |-> registrationLine,
       head_office_address |-> <<address>>,
       head_office_line |-> headOfficeLine,
       representative_name |-> <<rep.name>>,
       representative_role |-> <<rep.role>>,
       representative_role_english |-> <<representativeRoleEnglish>>,
       representative_gender |->
         IF rep.gender = "null" THEN <<>> ELSE <<rep.gender>>,
       representative_is_holding |-> <<IF rep.isHolding THEN "true" ELSE "false">>,
       representative_line |-> sentence.line,
       representative_pronoun |-> txt(sentence.representativePronoun),
       representative_verb |-> txt(representativeVerbValue),
       holding_representative_name |-> txt(holdingName),
       holding_representative_role |-> txt(holdingRole),
       holding_representative_gender |-> txt(holdingGender),
       holding_representative_pronoun |-> txt(holdingPronoun),
       holding_representative_verb |-> txt(holdingVerbValue),
       holding_representative_role_english |-> txt(holdingRoleEnglish),
       civility |-> <<>>,
       first_name |-> <<>>,
       last_name |-> <<>>,
       full_name |-> <<denomination>>,
       birth_date |-> <<>>,
       birth_place |-> <<>>,
       birth_statement |-> <<>>,
       ne_word |-> <<>>,
       nationality |-> <<>>,
       nationality_line |-> <<>>,
       personal_address |-> <<address>>,
       personal_address_line |-> headOfficeLine]

\* the placeholder {{name}}
ph(name) == <<"{", "{", name, "}", "}">>

PERSONNE_PHYSIQUE_TEMPLATES(language) ==
  ph("civility") \o <<" ">> \o ph("full_name") \o <<"\n">> \o ph("birth_statement")
  \o <<"\n">> \o ph("nationality_line") \o <<"\n">> \o ph("personal_address_line")
  \o <<"\n", numberLabel(language)>> \o ph("siren_formatted")

PERSONNE_MORALE_TEMPLATES(language) ==
  IF language = "en"
  THEN ph("company_header") \o <<"\n">> \o ph("share_capital_line") \o <<"\n">>
       \o ph("head_office_line") \o <<"\n">> \o ph("registration_line") \o <<"\n">>
       \o ph("representative_line")
  ELSE <<"**La société ">> \o ph("company_name") \o <<"**", "\n", "\n">>
       \o ph("share_capital_line") \o <<"\n">> \o ph("registration_line") \o <<"\n">>
       \o ph("head_office_line") \o <<"\n", "\n">> \o ph("representative_line")

----------------------------------------------------------------------------
(* findPhysicalRepresentative: the holding-chain walk                      *)
(* (lib/recursive-representative-search.ts)                                *)

\* the fixed maximum depth of the walk
MAX_DEPTH == 5

\* what the Company Data Provider answers to one fetch
NotFound == [type |-> "NotFound", personneMorale |-> <<>>]
TransientError == [type |-> "TransientError", personneMorale |-> <<>>]
CompanyRecord(pm) == [type |-> "CompanyRecord", personneMorale |-> pm]

\* the state of one walk: its arguments, the loop variables (the identifier
\* and the name of the holding looked at, the visited identifiers, the
\* remaining depth), the fetches made, and how it ended (stop = "" while it
\* runs; last is the answer that ended it)
walkStart(holdingName, holdingSiren, holdingRole, holdingRoleCode) ==
  [holdingName |-> holdingName, holdingSiren |-> holdingSiren,
   holdingRole |-> holdingRole, holdingRoleCode |-> holdingRoleCode,
   current |-> holdingSiren, currentName |-> holdingName, visited |-> {},
   depth |-> MAX_DEPTH, fetches |-> 0, inFlight |-> FALSE, stop |-> "",
   last |-> NotFound, result |-> <<>>]

\* variant: a result named after the holding the walk is looking at
holdingOnlyOfCurrent(w) ==
  [name |-> w.currentName, role |-> w.holdingRole, roleCode |-> w.holdingRoleCode,
   roleEnglish |-> "", gender |-> "null", isHolding |-> TRUE,
   corporateSiren |-> w.holdingSiren, holdingRepresentative |-> <<>>]

\* the representative the walk returns when it stops without a natural
\* person: the original holding, isHolding, no tail
holdingOnly(w) ==
  [name |-> w.holdingName, role |-> w.holdingRole, roleCode |-> w.holdingRoleCode,
   roleEnglish |-> "", gender |-> "null", isHolding |-> TRUE,
   corporateSiren |-> w.holdingSiren, holdingRepresentative |-> <<>>]

\* variant: the terminal natural person with the original holding attached
holdingWithTailSwapped(w, person) ==
  [person EXCEPT !.holdingRepresentative = <<holdingOnly(w)>>]

\* the original holding with the terminal natural person attached as tail
holdingWithTail(w, person) ==
  [holdingOnly(w) EXCEPT !.holdingRepresentative = <<person>>]

\* the walk returns: its loop variables are gone, what remains is how it
\* ended, what it returned and how many fetches it made
stopWith(w, reason, result) ==
  [w EXCEPT !.current = "", !.currentName = "", !.visited = {}, !.depth = 0,
            !.inFlight = FALSE, !.stop = reason, !.result = <<result>>]

\* variant: a failed fetch that gives the placeholder representative on TransientError
onFetchFailureTransientPlaceholder(w, type) ==
  IF type = "TransientError" THEN stopWith(w, type, fallback)
  ELSE stopWith(w, type, holdingOnly(w))

\* a failed fetch, NotFound or TransientError alike: stop, holding only
onFetchFailure(w, type) == stopWith(w, type, holdingOnly(w))

\* variant: a depth that is not lowered
nextDepthNotDecremented(depth) == depth

\* the remaining depth after one more level
nextDepth(depth) == depth - 1

\* variant: the fetch of the identifier after the current one issued along
\* with the fetch of the current one
walkLoopHeadFetchAhead(w) ==
  IF w.current \in w.visited THEN stopWith(w, "visited", holdingOnly(w))
  ELSE IF w.depth <= 0 THEN stopWith(w, "depth", holdingOnly(w))
  ELSE [w EXCEPT !.inFlight = TRUE, !.fetches = @ + 2]

\* the head of the loop: stop on a visited identifier or on exhausted depth,
\* else issue the fetch of the current identifier
walkLoopHead(w) ==
  IF w.current \in w.visited THEN stopWith(w, "visited", holdingOnly(w))
  ELSE IF w.depth <= 0 THEN stopWith(w, "depth", holdingOnly(w))
  ELSE [w EXCEPT !.inFlight = TRUE, !.fetches = @ + 1]

\* the rest of one iteration, run when the fetch is answered
walkOnAnswer(w, answer) ==
  IF answer.type # "CompanyRecord" THEN onFetchFailure(w, answer.type)
  ELSE IF answer.personneMorale = <<>>
          \/ Len(pouvoirsOf(answer.personneMorale[1].composition)) = 0
       THEN stopWith([w EXCEPT !.last = answer], "noComposition", holdingOnly(w))
  ELSE LET found == extractRepresentativeInfo(answer.personneMorale[1].composition).rep
           v == [w EXCEPT !.last = answer]
       IN  IF found = fallback THEN stopWith(v, "noComposition", holdingOnly(w))
           ELSE IF ~found.isHolding THEN stopWith(v, "person", holdingWithTail(w, found))
           ELSE IF found.corporateSiren = ""
                THEN stopWith(v, "noIdentifier", holdingOnly(w))
           ELSE walkLoopHead([v EXCEPT !.inFlight = FALSE,
                                       !.visited = @ \cup {w.current},
                                       !.depth = nextDepth(@),
                                       !.current = found.corporateSiren,
                                       !.currentName = found.name])

----------------------------------------------------------------------------
(* buildMarkdownAsync and the builders it calls                            *)

Languages == {"fr", "en"}

\* a template string is blank when trim() leaves nothing of it
isBlank(t) == \A i \in 1..Len(t) : t[i] = " " \/ t[i] = "\n"

\* getUserTemplate(): the stored template when it is a non-blank string
getUserTemplate(pref) == IF pref # <<>> /\ ~isBlank(pref[1]) THEN pref ELSE <<>>

\* the template option CompanyDetailsView passes to buildMarkdownAsync
normalizedTemplate(override) ==
  IF override # <<>> /\ ~isBlank(override[1]) THEN override ELSE <<>>

\* variant: the stored template ahead of the option
chosenOverridePreferenceFirst(optionTemplate, pref) ==
  IF getUserTemplate(pref) # <<>> THEN getUserTemplate(pref) ELSE optionTemplate

\* options?.template ?? getUserTemplate()
chosenOverride(optionTemplate, pref) ==
  IF optionTemplate # <<>> THEN optionTemplate ELSE getUserTemplate(pref)

\* the end of buildPersonnePhysiqueMarkdown: template choice and rendering
\* of the variable set vs
renderPersonnePhysique(vs, override, language) ==
  renderTemplate(IF override # <<>> THEN override[1]
                 ELSE PERSONNE_PHYSIQUE_TEMPLATES(language), vs)

\* the end of buildPersonneMoraleMarkdown(Async): template choice and
\* rendering of the variable set vs
renderPersonneMorale(vs, override, language) ==
  renderTemplate(IF override # <<>> THEN override[1]
                 ELSE PERSONNE_MORALE_TEMPLATES(language), vs)

\* variant: an empty text for a record without payload
NO_INFORMATION_EMPTY == <<>>

\* what buildMarkdown and buildMarkdownAsync return for a record that has
\* neither payload
NO_INFORMATION == <<"No information to display.">>

\* variant: a call with name and role exchanged
callFindPhysicalRepresentativeSwapped(rep) ==
  walkStart(rep.role, rep.corporateSiren, rep.name, rep.roleCode)

\* the arguments buildPersonneMoraleMarkdownAsync gives the walk
callFindPhysicalRepresentative(rep) ==
  walkStart(rep.name, rep.corporateSiren, rep.role, rep.roleCode)

\* variant: a test that leaves the identifier out
shouldWalkAnyHolding(rep) == rep.isHolding

\* representative.isHolding && representative.corporateSiren
shouldWalk(rep) == rep.isHolding /\ rep.corporateSiren # ""

noWalk == walkStart("", "", "", "")

\* buildMarkdownAsync(data, options) for language r, from its call to its
\* first await (the first fetch of the walk) or, without one, to its end
StartRender(r) ==
  /\ pc[r] = "start"
  /\ r = "en" => pc["fr"] # "start"
  /\ LET override == chosenOverride(normalizedTemplate(templateOverride), outputTemplate)
     IN  IF data.personnePhysique # <<>>
         THEN /\ built' = [built EXCEPT ![r] = <<personnePhysiqueVariables(data, r)>>]
              /\ markdown' = [markdown EXCEPT ![r] =
                               <<renderPersonnePhysique(built'[r][1], override, r)>>]
              /\ pc' = [pc EXCEPT ![r] = "done"]
              /\ UNCHANGED <<data, firstLevel, representative, walk>>
         ELSE IF data.personneMorale = <<>>
         THEN /\ markdown' = [markdown EXCEPT ![r] = <<NO_INFORMATION>>]
              /\ pc' = [pc EXCEPT ![r] = "done"]
              /\ UNCHANGED <<data, firstLevel, representative, walk, built>>
         ELSE LET ex == extractRepresentativeInfo(data.personneMorale[1].composition)
                  after == [data EXCEPT !.personneMorale[1].composition = ex.composition]
                  w == walkLoopHead(callFindPhysicalRepresentative(ex.rep))
              IN  /\ data' = after
                  /\ firstLevel' = [firstLevel EXCEPT ![r] = <<ex.rep>>]
                  /\ IF shouldWalk(ex.rep) /\ w.stop = ""
                     THEN /\ walk' = [walk EXCEPT ![r] = w]
                          /\ representative' = [representative EXCEPT ![r] = <<ex.rep>>]
                          /\ pc' = [pc EXCEPT ![r] = "fetching"]
                          /\ UNCHANGED <<built, markdown>>
                     ELSE LET rep == IF shouldWalk(ex.rep)
                                     THEN w.result[1] ELSE ex.rep
                          IN  /\ walk' = [walk EXCEPT ![r] =
                                            IF shouldWalk(ex.rep)
                                            THEN w ELSE noWalk]
                              /\ representative' = [representative EXCEPT ![r] = <<rep>>]
                              /\ built' = [built EXCEPT ![r] =
                                    <<createPersonneMoraleTemplateVariables(after, rep, r)>>]
                              /\ markdown' = [markdown EXCEPT ![r] =
                                    <<renderPersonneMorale(built'[r][1], override, r)>>]
                              /\ pc' = [pc EXCEPT ![r] = "done"]
  /\ UNCHANGED <<templateOverride, outputTemplate>>
  /\ UNCHANGED <<resolverVars, rendererVars, fetched, uiVars>>

\* the provider answers the fetch in flight: the walk runs on to its next
\* fetch or returns, and then the render is completed
FetchReturn(r, answer) ==
  /\ pc[r] = "fetching"
  /\ LET override == chosenOverride(normalizedTemplate(templateOverride), outputTemplate)
         w == walkOnAnswer(walk[r], answer)
     IN  /\ walk' = [walk EXCEPT ![r] = w]
         /\ IF w.stop = ""
            THEN UNCHANGED <<pc, representative, built, markdown>>
            ELSE /\ representative' = [representative EXCEPT ![r] = w.result]
                 /\ built' = [built EXCEPT ![r] =
                       <<createPersonneMoraleTemplateVariables(data, w.result[1], r)>>]
                 /\ markdown' = [markdown EXCEPT ![r] =
                       <<renderPersonneMorale(built'[r][1], override, r)>>]
                 /\ pc' = [pc EXCEPT ![r] = "done"]
  /\ UNCHANGED <<data, firstLevel, templateOverride, outputTemplate>>
  /\ UNCHANGED <<resolverVars, rendererVars, fetched, uiVars>>

\* variant: a rejection that is not caught: the render rejects
WalkRejectsPropagated(r) ==
  /\ pc[r] = "fetching"
  /\ walk' = [walk EXCEPT ![r] = [@ EXCEPT !.inFlight = FALSE, !.stop = "rejected"]]
  /\ pc' = [pc EXCEPT ![r] = "rejected"]
  /\ UNCHANGED <<data, firstLevel, templateOverride, outputTemplate, representative,
                 built, markdown>>
  /\ UNCHANGED <<resolverVars, rendererVars, fetched, uiVars>>

\* the catch block of buildPersonneMoraleMarkdownAsync: the awaited walk
\* rejected, `representative` keeps its value and the render is completed
WalkRejects(r) ==
  /\ pc[r] = "fetching"
  /\ LET override == chosenOverride(normalizedTemplate(templateOverride), outputTemplate)
     IN  /\ walk' = [walk EXCEPT ![r] = [@ EXCEPT !.inFlight = FALSE, !.stop = "rejected"]]
         /\ built' = [built EXCEPT ![r] =
               <<createPersonneMoraleTemplateVariables(data, representative[r][1], r)>>]
         /\ markdown' = [markdown EXCEPT ![r] =
               <<renderPersonneMorale(built'[r][1], override, r)>>]
         /\ pc' = [pc EXCEPT ![r] = "done"]
  /\ UNCHANGED <<data, firstLevel, templateOverride, outputTemplate, representative>>
  /\ UNCHANGED <<resolverVars, rendererVars, fetched, uiVars>>

\* buildMarkdown(data, options) for language r: the synchronous entry point,
\* run from its call to its return; it calls no walk
BuildMarkdown(r) ==
  /\ pc[r] = "startSync"
  /\ LET override == chosenOverride(templateOverride, outputTemplate)
     IN  IF data.personnePhysique # <<>>
         THEN /\ built' = [built EXCEPT ![r] = <<personnePhysiqueVariables(data, r)>>]
              /\ markdown' = [markdown EXCEPT ![r] =
                               <<renderPersonnePhysique(built'[r][1], override, r)>>]
              /\ UNCHANGED <<data, firstLevel, representative>>
         ELSE IF data.personneMorale = <<>>
         THEN /\ markdown' = [markdown EXCEPT ![r] = <<NO_INFORMATION>>]
              /\ UNCHANGED <<data, firstLevel, representative, built>>
         ELSE LET ex == extractRepresentativeInfo(data.personneMorale[1].composition)
                  after == [data EXCEPT !.personneMorale[1].composition = ex.composition]
              IN  /\ data' = after
                  /\ firstLevel' = [firstLevel EXCEPT ![r] = <<ex.rep>>]
                  /\ representative' = [representative EXCEPT ![r] = <<ex.rep>>]
                  /\ built' = [built EXCEPT ![r] =
                        <<createPersonneMoraleTemplateVariables(after, ex.rep, r)>>]
                  /\ markdown' = [markdown EXCEPT ![r] =
                        <<renderPersonneMorale(built'[r][1], override, r)>>]
  /\ pc' = [pc EXCEPT ![r] = "doneSync"]
  /\ UNCHANGED <<walk, templateOverride, outputTemplate>>
  /\ UNCHANGED <<resolverVars, rendererVars, fetched, uiVars>>

\* the record contents the model renders
PersonneMorale(c) ==
  [denomination |-> "Test Company SARL", montantCapital |-> "10000",
   adresse |-> "123 rue de la Paix, 75001 Paris", rcsCity |-> "Paris",
   composition |-> c]

CompanyData(pm, pp) ==
  [siren |-> "123456789", formeJuridique |-> IF pp # <<>> THEN "1000" ELSE "5499",
   personneMorale |-> pm, personnePhysique |-> pp]

noComposition == [tag |-> "undefined", items |-> <<>>]

IdleCopy ==
  /\ copyMarkdown = <<>>
  /\ copyHtml = <<>>
  /\ copyText = <<>>

\* an optional string: undefined, null, or a string of characters
Optional(tag, text) == [tag |-> tag, text |-> text]

undefinedValue == Optional("undefined", <<>>)

nullValue == Optional("null", <<>>)

StringValue(text) == Optional("string", text)

IdleLink ==
  /\ params = [siren |-> undefinedValue, siret |-> undefinedValue,
               denomination |-> undefinedValue]
  /\ pappersUrl = <<>>
  /\ pappersCalled = FALSE

\* what useCompanyData returns: data is <<>> (undefined) or <<a record>>
CompanyState(d, isLoading, error) == [data |-> d, isLoading |-> isLoading, error |-> error]

IdleForm ==
  /\ autoReadClipboard = FALSE
  /\ sirenInput = <<>>
  /\ sirenError = ""
  /\ hasInitialisedFromClipboard = FALSE
  /\ formTemplate = <<>>
  /\ effects = <<>>
  /\ userTyped = FALSE
  /\ inputSource = "initial"
  /\ savedEmpty = FALSE
  /\ submits = 0
  /\ screen = "form"
  /\ detailSiren = <<>>
  /\ fetches = 0
  /\ company = CompanyState(<<>>, FALSE, FALSE)
  /\ view = ""

IdleUi == IdleCopy /\ IdleLink /\ IdleForm

IdleRender ==
  /\ data = CompanyData(<<>>, <<>>)
  /\ fetched = data
  /\ templateOverride = <<>>
  /\ outputTemplate = <<>>
  /\ pc = [r \in Languages |-> "idle"]
  /\ firstLevel = [r \in Languages |-> <<>>]
  /\ representative = [r \in Languages |-> <<>>]
  /\ walk = [r \in Languages |-> noWalk]
  /\ built = [r \in Languages |-> <<>>]
  /\ markdown = [r \in Languages |-> <<>>]

----------------------------------------------------------------------------
(* markdownToHtml and markdownToPlainText                                  *)

\* white space as String.prototype.trim sees it
isWhiteSpace(c) == c = " " \/ c = "\n"

\* String.prototype.trim
RECURSIVE trimStart(_)
trimStart(t) == IF t # <<>> /\ isWhiteSpace(Head(t)) THEN trimStart(Tail(t)) ELSE t

RECURSIVE trimEnd(_)
trimEnd(t) ==
  IF t # <<>> /\ isWhiteSpace(t[Len(t)]) THEN trimEnd(SubSeq(t, 1, Len(t) - 1)) ELSE t

trim(t) == trimEnd(trimStart(t))

\* n asterisks at position i
asterisksAt(t, i, n) == i + n - 1 <= Len(t) /\ \A k \in i..(i + n - 1) : t[k] = "*"

\* the lazy (.*?) followed by the closing asterisks: the first position at or
\* after j that holds n asterisks, with no line break before it; 0 if none
RECURSIVE closingAt(_, _, _)
closingAt(t, j, n) ==
  IF j + n - 1 > Len(t) THEN 0
  ELSE IF asterisksAt(t, j, n) THEN j
  ELSE IF t[j] = "\n" THEN 0
  ELSE closingAt(t, j + 1, n)

\* replace(/\*\*(.*?)\*\*/g, open $1 close) for n = 2 and
\* replace(/\*(.*?)\*/g, open $1 close) for n = 1: one pass, left to right,
\* resumed behind each match
RECURSIVE replaceMarked(_, _, _, _, _)
replaceMarked(t, i, n, open, close) ==
  IF i > Len(t) THEN <<>>
  ELSE LET j == IF asterisksAt(t, i, n) THEN closingAt(t, i + n, n) ELSE 0
       IN  IF j # 0
           THEN open \o SubSeq(t, i + n, j - 1) \o close
                \o replaceMarked(t, j + n, n, open, close)
           ELSE <<t[i]>> \o replaceMarked(t, i + 1, n, open, close)

\* String.prototype.split("\n"): the lines of t
RECURSIVE splitLines(_)
splitLines(t) ==
  IF \A i \in 1..Len(t) : t[i] # "\n" THEN <<t>>
  ELSE LET k == CHOOSE i \in 1..Len(t) : t[i] = "\n" /\ \A h \in 1..(i - 1) : t[h] # "\n"
       IN  <<SubSeq(t, 1, k - 1)>> \o splitLines(SubSeq(t, k + 1, Len(t)))

\* filter of the blank lines, <p>line.trim()</p> around the others, join("")
RECURSIVE paragraphs(_)
paragraphs(lines) ==
  IF lines = <<>> THEN <<>>
  ELSE IF trim(Head(lines)) = <<>> THEN paragraphs(Tail(lines))
  ELSE <<"<p>">> \o trim(Head(lines)) \o <<"</p>">> \o paragraphs(Tail(lines))

markdownToHtml(md) ==
  paragraphs(splitLines(
    replaceMarked(replaceMarked(md, 1, 2, <<"<strong>">>, <<"</strong>">>),
                  1, 1, <<"<em>">>, <<"</em>">>)))

markdownToPlainText(md) ==
  trim(replaceMarked(replaceMarked(md, 1, 2, <<>>, <<>>), 1, 1, <<>>, <<>>))

----------------------------------------------------------------------------
(* buildPappersSearchUrl                                                   *)

DigitSymbols == <<"1", "2", "3", "4", "5", "6", "7", "8", "9", "0">>

isDigit(c) == \E i \in 1..Len(DigitSymbols) : DigitSymbols[i] = c

\* value.replace(/\D/g, "")
digitsOf(text) == SelectSeq(text, isDigit)

\* !value: undefined, null and the empty string
isFalsy(value) == value.tag # "string" \/ value.text = <<>>

\* normaliseSiren(value): <<>> is undefined
normaliseSiren(value) ==
  IF isFalsy(value) THEN <<>>
  ELSE IF Len(digitsOf(value.text)) = 9 THEN <<digitsOf(value.text)>> ELSE <<>>

normaliseSiret(value) ==
  IF isFalsy(value) THEN <<>>
  ELSE IF Len(digitsOf(value.text)) = 14 THEN <<digitsOf(value.text)>> ELSE <<>>

normaliseText(value) ==
  IF isFalsy(value) THEN <<>>
  ELSE IF Len(trim(value.text)) > 0 THEN <<trim(value.text)>> ELSE <<>>

\* a ?? b
nullish(a, b) == IF a # <<>> THEN a ELSE b

\* encodeURIComponent on the characters of the model: letters and digits
\* stay, the blank and the ampersand are escaped
encodeURIComponent(text) ==
  [i \in 1..Len(text) |->
     IF text[i] = " " THEN "%20" ELSE IF text[i] = "&" THEN "%26" ELSE text[i]]

\* variant: the SIRET ahead of the SIREN
buildPappersSearchUrlSiretFirst(p) ==
  LET query == nullish(normaliseSiret(p.siret),
                       nullish(normaliseSiren(p.siren), normaliseText(p.denomination)))
  IN  IF query = <<>> \/ query[1] = <<>> THEN <<>>
      ELSE <<<<"https://www.pappers.fr/recherche?q=">> \o encodeURIComponent(query[1])>>

\* buildPappersSearchUrl(params): <<>> is undefined
buildPappersSearchUrl(p) ==
  LET query == nullish(normaliseSiren(p.siren),
                       nullish(normaliseSiret(p.siret), normaliseText(p.denomination)))
  IN  IF query = <<>> \/ query[1] = <<>> THEN <<>>
      ELSE <<<<"https://www.pappers.fr/recherche?q=">> \o encodeURIComponent(query[1])>>

----------------------------------------------------------------------------
(* The resolver machine: extractRepresentativeInfo called on one           *)
(* composition object, once or again (the two language renders of a record *)
(* call it on the same object).                                            *)

\* the descriptors a pouvoir may carry: <<kind, prenom, nom, genre, siren>>
DescriptorMenu ==
  { <<"individu", "Alice", "Durand", "2", "">>,
    <<"individu", "Jean", "Dupont", "1", "">>,
    <<"individu", "Paul", "President", "", "">>,
    <<"personnePhysique", "Marie", "Martin", "2", "">>,
    <<"personnePhysique", "Paul", "President", "", "">>,
    <<"entreprise", "", "Holding Company", "", "100000001">>,
    <<"entreprise", "", "", "", "100000001">>,
    <<"none", "", "", "", "">> }

PouvoirMenu ==
  { Pouvoir(r, d[1], d[2], d[3], d[4], d[5]) : r \in Roles, d \in DescriptorMenu }

RECURSIVE SeqsUpTo(_, _)
SeqsUpTo(S, n) ==
  IF n = 0 THEN {<<>>}
  ELSE LET shorter == SeqsUpTo(S, n - 1)
       IN  shorter \cup { Append(q, x) : q \in {t \in shorter : Len(t) = n - 1}, x \in S }

\* a composition object: pouvoirs missing, null, a non-array value, or an array
Compositions(n) ==
  { [tag |-> t, items |-> <<>>] : t \in {"undefined", "null", "string"} }
  \cup { [tag |-> "array", items |-> q] : q \in SeqsUpTo(PouvoirMenu, n) }

IdleRenderer ==
  /\ template = <<>>
  /\ variables = <<>>
  /\ output = <<>>
  /\ rendered = FALSE

InitResolver ==
  /\ IdleUi
  /\ IdleRenderer
  /\ IdleRender
  /\ composition \in Compositions(MaxPouvoirs)
  /\ extractArg = noComposition
  /\ selected = <<>>
  /\ extracted = <<>>
  /\ calls = 0

CallExtractRepresentativeInfo ==
  /\ calls < MaxCalls
  /\ LET r == extractRepresentativeInfo(composition)
     IN  /\ extractArg' = composition
         /\ selected' = r.pouvoir
         /\ extracted' = <<r.rep>>
         /\ composition' = r.composition
  /\ calls' = calls + 1
  /\ UNCHANGED <<rendererVars, renderVars, uiVars>>

NextResolver == CallExtractRepresentativeInfo

SpecResolver == InitResolver /\ [][NextResolver]_vars

----------------------------------------------------------------------------
(* The renderer machine: renderTemplate applied to one template and one    *)
(* variable set.                                                           *)

\* a template is a concatenation of pieces
TemplatePieces ==
  { <<"{", "{">>, <<"}", "}">>, <<"{">>, <<" ">>, <<"a">>, <<"b">>,
    <<"constructor">>, <<"-">> }

RECURSIVE flatten(_)
flatten(q) == IF q = <<>> THEN <<>> ELSE Head(q) \o flatten(Tail(q))

Templates(n) == { flatten(q) : q \in SeqsUpTo(TemplatePieces, n) }

\* variable sets: one whose value for "a" itself holds a placeholder, one
\* that does not define "b"
VariableSets ==
  { [n \in {"a", "b"} |-> IF n = "a" THEN <<"{", "{", "b", "}", "}">> ELSE <<"y">>],
    [n \in {"a"} |-> <<"x">>] }

IdleResolver ==
  /\ composition = noComposition
  /\ extractArg = noComposition
  /\ selected = <<>>
  /\ extracted = <<>>
  /\ calls = 0

InitRenderer ==
  /\ IdleUi
  /\ IdleResolver
  /\ IdleRender
  /\ template \in Templates(MaxPieces)
  /\ variables \in VariableSets
  /\ output = <<>>
  /\ rendered = FALSE

CallRenderTemplate ==
  /\ ~rendered
  /\ output' = renderTemplate(template, variables)
  /\ rendered' = TRUE
  /\ UNCHANGED <<template, variables>>
  /\ UNCHANGED <<resolverVars, renderVars, uiVars>>

NextRenderer == CallRenderTemplate

SpecRenderer == InitRenderer /\ [][NextRenderer]_vars

----------------------------------------------------------------------------
(* The render machine: buildMarkdownAsync of one record in one language;   *)
(* the walk awaits its fetches.                                            *)

array(items) == [tag |-> "array", items |-> items]

holdingCompany == Pouvoir("5132", "entreprise", "", "Holding Company", "", sirenOf(1))

\* compositions of the record rendered
RootCompositions ==
  { array(<<holdingCompany>>),
    array(<<Pouvoir("5132", "individu", "Jean", "Dupont", "1", "")>>),
    array(<<Pouvoir("5141", "individu", "Paul", "President", "", ""),
            Pouvoir("51", "entreprise", "", "Holding Company", "", sirenOf(1))>>),
    array(<<Pouvoir("5132", "entreprise", "", "Holding Company", "", "")>>),
    noComposition }

RootRecords ==
  { CompanyData(<<PersonneMorale(c)>>, <<>>) : c \in RootCompositions }
  \cup { CompanyData(<<>>, <<PersonnePhysique(g)>>) : g \in {"1", "2"} }
  \cup { CompanyData(<<>>, <<>>) }

\* compositions of the records the provider returns during a walk
FetchedCompositions ==
  { array(<<Pouvoir("5132", "entreprise", "", "Intermediate Holding", "", s)>>) : s \in Sirens }
  \cup
  { array(<<Pouvoir("5132", "individu", "Alice", "Durand", "2", "")>>),
    array(<<Pouvoir("53", "individu", "Jean", "Dupont", "1", ""),
            Pouvoir("51", "personnePhysique", "Marie", "Martin", "2", "")>>),
    array(<<Pouvoir("5132", "entreprise", "", "Intermediate Holding", "", "")>>),
    array(<<Pouvoir("5132", "none", "", "", "", "")>>),
    array(<<>>),
    noComposition }

ProviderAnswers ==
  { NotFound, TransientError, CompanyRecord(<<>>) }
  \cup { CompanyRecord(<<PersonneMorale(c)>>) : c \in FetchedCompositions }

customTemplate ==
  <<"Company ">> \o ph("company_name") \o <<" led by ">> \o ph("representative_name")
  \o <<" (">> \o ph("holding_representative_name") \o <<")">>

\* the calls made: entry[r] is where the call for language r stands ("idle"
\* when there is none), on one of the records, with one of the template
\* options and one of the stored preferences
InitCalls(entry, records, options, preferences) ==
  /\ IdleUi
  /\ IdleResolver
  /\ IdleRenderer
  /\ data \in records
  /\ fetched = data
  /\ templateOverride \in options
  /\ outputTemplate \in preferences
  /\ pc = entry
  /\ firstLevel = [r \in Languages |-> <<>>]
  /\ representative = [r \in Languages |-> <<>>]
  /\ walk = [r \in Languages |-> noWalk]
  /\ built = [r \in Languages |-> <<>>]
  /\ markdown = [r \in Languages |-> <<>>]

\* the renders started: pc is "start" for them and "idle" for the others
InitRenderOf(started) ==
  InitCalls([r \in Languages |-> IF r \in started THEN "start" ELSE "idle"],
            RootRecords, {<<>>, <<customTemplate>>}, {<<>>, <<<<" ">>>>})

InitRender == \E language \in Languages : InitRenderOf({language})

Next ==
  \E r \in Languages :
    \/ StartRender(r)
    \/ \E answer \in ProviderAnswers : FetchReturn(r, answer)

Spec == InitRender /\ [][Next]_vars

\* the awaited findPhysicalRepresentative taken as any asynchronous callee:
\* it may also reject
NextWalkMayReject ==
  \E r \in Languages :
    \/ StartRender(r)
    \/ \E answer \in ProviderAnswers : FetchReturn(r, answer)
    \/ WalkRejects(r)

SpecWalkMayReject == InitRender /\ [][NextWalkMayReject]_vars

\* the records and the provider answers of the concurrent renders
ConcurrentRecords ==
  { CompanyData(<<PersonneMorale(c)>>, <<>>) :
      c \in { array(<<holdingCompany>>),
              array(<<Pouvoir("5141", "individu", "Paul", "President", "", ""),
                      Pouvoir("51", "entreprise", "", "Holding Company", "", sirenOf(1))>>),
              array(<<Pouvoir("53", "individu", "Jean", "Dupont", "1", ""),
                      Pouvoir("51", "personnePhysique", "Marie", "Martin", "2", "")>>) } }
  \cup { CompanyData(<<>>, <<PersonnePhysique("2")>>), CompanyData(<<>>, <<>>) }

ConcurrentAnswers ==
  { NotFound, TransientError,
    CompanyRecord(<<PersonneMorale(
      array(<<Pouvoir("5132", "individu", "Alice", "Durand", "2", "")>>))>>),
    CompanyRecord(<<PersonneMorale(
      array(<<Pouvoir("53", "individu", "Jean", "Dupont", "1", ""),
              Pouvoir("51", "personnePhysique", "Marie", "Martin", "2", "")>>))>>),
    CompanyRecord(<<PersonneMorale(
      array(<<Pouvoir("5132", "entreprise", "", "Intermediate Holding", "", sirenOf(1))>>))>>),
    CompanyRecord(<<PersonneMorale(
      array(<<Pouvoir("5132", "entreprise", "", "Intermediate Holding", "", sirenOf(2))>>))>>) }

\* the details view: Promise.all over the French and the English render of
\* one record.  Both calls run to their first await before any fetch is
\* answered; the answers then come in any order
InitConcurrent ==
  InitCalls([r \in Languages |-> "start"], ConcurrentRecords,
            {<<>>, <<customTemplate>>}, {<<>>})

NextConcurrent ==
  \E r \in Languages :
    \/ StartRender(r)
    \/ /\ \A q \in Languages : pc[q] # "start"
       /\ \E answer \in ConcurrentAnswers : FetchReturn(r, answer)

SpecConcurrent == InitConcurrent /\ [][NextConcurrent]_vars

\* a template stored in the preferences
preferenceTemplate ==
  <<"Stored: ">> \o ph("company_name") \o <<" / ">> \o ph("full_name")

\* either entry point called on one record in one language: buildMarkdown
\* with any options.template, buildMarkdownAsync with the option the details
\* view passes
InitEntryPoints ==
  \E language \in Languages, entry \in {"start", "startSync"} :
    InitCalls([r \in Languages |-> IF r = language THEN entry ELSE "idle"],
              RootRecords,
              {<<>>, <<customTemplate>>, <<<<" ">>>>},
              {<<>>, <<<<" ">>>>, <<preferenceTemplate>>})

NextEntryPoints ==
  \E r \in Languages :
    \/ BuildMarkdown(r)
    \/ StartRender(r)
    \/ \E answer \in ProviderAnswers : FetchReturn(r, answer)

SpecEntryPoints == InitEntryPoints /\ [][NextEntryPoints]_vars

----------------------------------------------------------------------------
(* The copy machine: the Copy action of CompanyDetailsView hands one       *)
(* markdown text to markdownToHtml and to markdownToPlainText.             *)

\* the characters of the texts enumerated: the asterisk, a blank, a line
\* break and two letters
CopySymbols == {"*", " ", "\n", "a", "b"}

InitCopy ==
  /\ IdleResolver
  /\ IdleRenderer
  /\ IdleRender
  /\ IdleLink
  /\ IdleForm
  /\ copyMarkdown \in SeqsUpTo(CopySymbols, MaxChars)
  /\ copyHtml = <<>>
  /\ copyText = <<>>

\* Action.CopyToClipboard content: { html, text }
CopyToClipboard ==
  /\ copyHtml = <<>>
  /\ copyHtml' = <<markdownToHtml(copyMarkdown)>>
  /\ copyText' = <<markdownToPlainText(copyMarkdown)>>
  /\ UNCHANGED copyMarkdown
  /\ UNCHANGED <<resolverVars, rendererVars, renderVars, linkVars, formVars>>

NextCopy == CopyToClipboard

SpecCopy == InitCopy /\ [][NextCopy]_vars

----------------------------------------------------------------------------
(* The link machine: buildPappersSearchUrl called on one params object.    *)

\* n digits
Digits(n) == [i \in 1..n |-> DigitSymbols[((i - 1) % 10) + 1]]

SirenValues ==
  { undefinedValue, nullValue, StringValue(<<>>), StringValue(Digits(9)),
    StringValue(Digits(3) \o <<" ">> \o Digits(3) \o <<" ">> \o Digits(3)),
    StringValue(Digits(8)), StringValue(Digits(14)), StringValue(<<"A", "B">>) }

SiretValues ==
  { undefinedValue, StringValue(<<>>), StringValue(Digits(14)),
    StringValue(Digits(9) \o <<" ">> \o Digits(5)), StringValue(Digits(9)),
    StringValue(Digits(13)) }

DenominationValues ==
  { undefinedValue, nullValue, StringValue(<<>>), StringValue(<<" ", " ">>),
    StringValue(<<" ", "A", "&", "B", " ">>), StringValue(<<"A", " ", "B">>) }

InitLink ==
  /\ IdleResolver
  /\ IdleRenderer
  /\ IdleRender
  /\ IdleCopy
  /\ IdleForm
  /\ params \in [siren : SirenValues, siret : SiretValues,
                 denomination : DenominationValues]
  /\ pappersUrl = <<>>
  /\ pappersCalled = FALSE

CallBuildPappersSearchUrl ==
  /\ ~pappersCalled
  /\ pappersUrl' = buildPappersSearchUrl(params)
  /\ pappersCalled' = TRUE
  /\ UNCHANGED params
  /\ UNCHANGED <<resolverVars, rendererVars, renderVars, copyVars, formVars>>

NextLink == CallBuildPappersSearchUrl

SpecLink == InitLink /\ [][NextLink]_vars

----------------------------------------------------------------------------
(* The form machine: SearchForm with its clipboard bootstrap, and the      *)
(* CompanyDetail view it pushes (index.tsx).                               *)

\* validateAndExtractSiren (lib/utils.ts): the SIREN for 9 digits, the first
\* 9 digits of a SIRET for 14 digits, nothing (<<>>) otherwise
validateAndExtractSiren(text) ==
  IF \E i \in 1..Len(text) : ~isDigit(text[i]) THEN <<>>
  ELSE IF Len(text) = 9 THEN <<text>>
  ELSE IF Len(text) = 14 THEN <<SubSeq(text, 1, 9)>>
  ELSE <<>>

\* the titles of the two errors, without their leading pictograms
EMPTY_INPUT_ERROR == "Please enter a SIREN (9 digits) or a SIRET (14 digits)."

INVALID_FORMAT_ERROR ==
  "Invalid format. A SIREN must contain 9 digits and a SIRET 14 digits."

\* what the user types in the field
TypedValues == {<<>>, Digits(9), Digits(5), Digits(14), <<"A", "B">>}

\* what Clipboard.readText() resolves with; <<>> is undefined
ClipboardContents ==
  {<<>>, <<<<>>>>, <<<<" ">> \o Digits(9) \o <<" ">>>>, <<<<"A", "B">>>>, <<Digits(14)>>}

\* the records useCompanyData delivers: corporate, individual, neither
DetailRecords ==
  { CompanyData(<<PersonneMorale([tag |-> "array",
                   items |-> <<Pouvoir("5132", "individu", "Jean", "Dupont", "1", "")>>])>>,
                <<>>),
    CompanyData(<<>>, <<PersonnePhysique("1")>>),
    CompanyData(<<>>, <<>>) }

CompanyStates ==
  { CompanyState(d, l, e) : d \in {<<>>} \cup { <<x>> : x \in DetailRecords },
                            l \in BOOLEAN, e \in BOOLEAN }

\* variant: no test of the payloads
CompanyDetailWithoutNoData(c) ==
  IF c.error THEN "error"
  ELSE IF c.isLoading THEN "loading"
  ELSE IF c.data # <<>> THEN "details"
  ELSE "empty"

\* CompanyDetail: the view returned for what useCompanyData returned
CompanyDetail(c) ==
  IF c.error THEN "error"
  ELSE IF /\ ~c.isLoading
          /\ c.data # <<>>
          /\ c.data[1].personneMorale = <<>>
          /\ c.data[1].personnePhysique = <<>>
       THEN "noData"
  ELSE IF c.isLoading THEN "loading"
  ELSE IF c.data # <<>> THEN "details"
  ELSE "empty"

\* one run of bootstrapFromClipboard: its isMounted flag, the await it is at
\* and the sirenError its closure holds
Effect(err) == [isMounted |-> TRUE, at |-> "readText", sirenError |-> err]

removeAt(q, k) == SubSeq(q, 1, k - 1) \o SubSeq(q, k + 1, Len(q))

\* useEffect after a render: when a dependency changed the cleanup of the
\* previous run clears its isMounted and the effect runs again, starting a
\* read unless the form is initialised
runEffect(runs, changed, initialised, err) ==
  IF ~changed THEN runs
  ELSE LET cleaned == [i \in 1..Len(runs) |-> [runs[i] EXCEPT !.isMounted = FALSE]]
       IN  IF autoReadClipboard /\ ~initialised
           THEN Append(cleaned, Effect(err)) ELSE cleaned

\* onChange of the text field, called when the user types
TypeInput(newValue) ==
  /\ screen = "form"
  /\ sirenInput' = newValue
  /\ sirenError' = ""
  /\ userTyped' = TRUE
  /\ inputSource' = "typed"
  /\ effects' = runEffect(effects, sirenError # "", hasInitialisedFromClipboard, "")
  /\ Len(effects') <= MaxEffects
  /\ UNCHANGED <<autoReadClipboard, hasInitialisedFromClipboard, formTemplate, savedEmpty,
                 submits, screen, detailSiren, fetches, company, view>>
  /\ UNCHANGED <<resolverVars, rendererVars, renderVars, copyVars, linkVars>>

\* Clipboard.readText() of run k resolves and bootstrapFromClipboard runs on
\* to its end
ClipboardResolves(k, content) ==
  /\ k \in 1..Len(effects)
  /\ effects[k].at = "readText"
  /\ LET rest == removeAt(effects, k)
         trimmedValue == IF content = <<>> THEN <<>> ELSE trim(content[1])
         detectedSiren == IF trimmedValue = <<>> THEN <<>>
                          ELSE validateAndExtractSiren(trimmedValue)
     IN  IF ~effects[k].isMounted
         THEN /\ effects' = rest
              /\ UNCHANGED <<sirenInput, sirenError, hasInitialisedFromClipboard,
                             inputSource>>
         ELSE IF trimmedValue = <<>> \/ detectedSiren = <<>>
         THEN /\ hasInitialisedFromClipboard' = TRUE
              /\ effects' = runEffect(rest, ~hasInitialisedFromClipboard, TRUE, sirenError)
              /\ UNCHANGED <<sirenInput, sirenError, inputSource>>
         ELSE /\ sirenInput' = trimmedValue
              /\ inputSource' = "clipboard"
              /\ sirenError' = IF effects[k].sirenError # "" THEN "" ELSE sirenError
              /\ hasInitialisedFromClipboard' = TRUE
              /\ effects' = runEffect(rest, ~hasInitialisedFromClipboard
                                            \/ sirenError' # sirenError, TRUE, sirenError')
  /\ UNCHANGED <<autoReadClipboard, formTemplate, userTyped, savedEmpty, submits, screen,
                 detailSiren, fetches, company, view>>
  /\ UNCHANGED <<resolverVars, rendererVars, renderVars, copyVars, linkVars>>

\* Clipboard.readText() of run k rejects: the catch block up to its await of
\* showToast
ClipboardRejects(k) ==
  /\ k \in 1..Len(effects)
  /\ effects[k].at = "readText"
  /\ effects' = IF effects[k].isMounted THEN [effects EXCEPT ![k].at = "showToast"]
                ELSE removeAt(effects, k)
  /\ UNCHANGED <<autoReadClipboard, sirenInput, sirenError, hasInitialisedFromClipboard,
                 formTemplate, userTyped, inputSource, savedEmpty, submits, screen,
                 detailSiren, fetches, company, view>>
  /\ UNCHANGED <<resolverVars, rendererVars, renderVars, copyVars, linkVars>>

\* the toast of run k is shown: the rest of the catch block
ToastShown(k) ==
  /\ k \in 1..Len(effects)
  /\ effects[k].at = "showToast"
  /\ hasInitialisedFromClipboard' = TRUE
  /\ effects' = runEffect(removeAt(effects, k), ~hasInitialisedFromClipboard, TRUE,
                          sirenError)
  /\ UNCHANGED <<autoReadClipboard, sirenInput, sirenError, formTemplate, userTyped,
                 inputSource, savedEmpty, submits, screen, detailSiren, fetches, company,
                 view>>
  /\ UNCHANGED <<resolverVars, rendererVars, renderVars, copyVars, linkVars>>

\* variant: the view pushed whatever the validation says
handleActionAlwaysPushes ==
  /\ screen = "form"
  /\ submits < MaxSubmits
  /\ submits' = submits + 1
  /\ sirenError' = ""
  /\ screen' = "detail"
  /\ detailSiren' = <<sirenInput>>
  /\ fetches' = fetches + 1
  /\ company' = CompanyState(<<>>, TRUE, FALSE)
  /\ view' = CompanyDetail(company')
  /\ effects' = runEffect(effects, sirenError' # sirenError, hasInitialisedFromClipboard,
                          sirenError')
  /\ Len(effects') <= MaxEffects
  /\ UNCHANGED <<autoReadClipboard, sirenInput, hasInitialisedFromClipboard, formTemplate,
                 userTyped, inputSource, savedEmpty>>
  /\ UNCHANGED <<resolverVars, rendererVars, renderVars, copyVars, linkVars>>

\* handleAction of the search form; a pushed CompanyDetail calls
\* useCompanyData(siren), which starts the fetch and reports it as loading
handleAction ==
  /\ screen = "form"
  /\ submits < MaxSubmits
  /\ submits' = submits + 1
  /\ LET siren == validateAndExtractSiren(sirenInput)
     IN  IF sirenInput = <<>>
         THEN /\ sirenError' = EMPTY_INPUT_ERROR
              /\ UNCHANGED <<screen, detailSiren, fetches, company, view>>
         ELSE IF siren = <<>>
         THEN /\ sirenError' = INVALID_FORMAT_ERROR
              /\ UNCHANGED <<screen, detailSiren, fetches, company, view>>
         ELSE /\ sirenError' = ""
              /\ screen' = "detail"
              /\ detailSiren' = siren
              /\ fetches' = fetches + 1
              /\ company' = CompanyState(<<>>, TRUE, FALSE)
              /\ view' = CompanyDetail(company')
  /\ effects' = runEffect(effects, sirenError' # sirenError, hasInitialisedFromClipboard,
                          sirenError')
  /\ Len(effects') <= MaxEffects
  /\ UNCHANGED <<autoReadClipboard, sirenInput, hasInitialisedFromClipboard, formTemplate,
                 userTyped, inputSource, savedEmpty>>
  /\ UNCHANGED <<resolverVars, rendererVars, renderVars, copyVars, linkVars>>

\* useCompanyData returns anew and CompanyDetail renders again
CompanyDataUpdate(c) ==
  /\ screen = "detail"
  /\ company' = c
  /\ view' = CompanyDetail(c)
  /\ UNCHANGED <<autoReadClipboard, sirenInput, sirenError, hasInitialisedFromClipboard,
                 formTemplate, effects, userTyped, inputSource, savedEmpty, submits,
                 screen, detailSiren, fetches>>
  /\ UNCHANGED <<resolverVars, rendererVars, renderVars, copyVars, linkVars>>

\* the user leaves the detail view: back to the form
PopDetail ==
  /\ screen = "detail"
  /\ screen' = "form"
  /\ detailSiren' = <<>>
  /\ company' = CompanyState(<<>>, FALSE, FALSE)
  /\ view' = ""
  /\ UNCHANGED <<autoReadClipboard, sirenInput, sirenError, hasInitialisedFromClipboard,
                 formTemplate, effects, userTyped, inputSource, savedEmpty, submits,
                 fetches>>
  /\ UNCHANGED <<resolverVars, rendererVars, renderVars, copyVars, linkVars>>

\* SearchForm mounted: empty field, and the first run of the effect
InitSearchForm ==
  /\ IdleResolver
  /\ IdleRenderer
  /\ IdleRender
  /\ IdleCopy
  /\ IdleLink
  /\ autoReadClipboard \in BOOLEAN
  /\ sirenInput = <<>>
  /\ sirenError = ""
  /\ hasInitialisedFromClipboard = FALSE
  /\ formTemplate = <<<<>>>>
  /\ effects = IF autoReadClipboard THEN <<Effect("")>> ELSE <<>>
  /\ userTyped = FALSE
  /\ inputSource = "initial"
  /\ savedEmpty = FALSE
  /\ submits = 0
  /\ screen = "form"
  /\ detailSiren = <<>>
  /\ fetches = 0
  /\ company = CompanyState(<<>>, FALSE, FALSE)
  /\ view = ""

NextSearchForm ==
  \/ \E newValue \in TypedValues : TypeInput(newValue)
  \/ \E k \in 1..MaxEffects, content \in ClipboardContents : ClipboardResolves(k, content)
  \/ \E k \in 1..MaxEffects : ClipboardRejects(k)
  \/ \E k \in 1..MaxEffects : ToastShown(k)
  \/ handleAction
  \/ \E c \in CompanyStates : CompanyDataUpdate(c)
  \/ PopDetail

SpecSearchForm == InitSearchForm /\ [][NextSearchForm]_vars

----------------------------------------------------------------------------
(* The search form with its template editor (the variant of index.tsx that *)
(* keeps a templateOverride state), up to the renders of the details view. *)

\* what the user leaves in the text area of the editor when saving
EditorValues ==
  {<<>>, <<" ">>, <<" ">> \o customTemplate \o <<"\n">>}

\* the records useCompanyData delivers here: an individual, a company led
\* by a person, a company led by a holding
EditorRecords ==
  { CompanyData(<<>>, <<PersonnePhysique("1")>>),
    CompanyData(<<PersonneMorale(array(<<Pouvoir("5132", "individu", "Jean", "Dupont", "1", "")>>))>>,
                <<>>),
    CompanyData(<<PersonneMorale(array(<<Pouvoir("5132", "entreprise", "", "Holding Company",
                                                 "", sirenOf(1))>>))>>,
                <<>>) }

\* what the provider answers during the walks of these renders
EditorAnswers ==
  { NotFound,
    CompanyRecord(<<PersonneMorale(array(<<Pouvoir("5132", "individu", "Alice", "Durand",
                                                   "2", "")>>))>>) }

\* handleSave of the TemplateEditor opened from the form, with the onSave
\* the form gave it: setTemplateOverride(value.trim()), then pop()
handleSave(value) ==
  /\ screen = "form"
  /\ formTemplate' = <<trim(value)>>
  /\ savedEmpty' = (trim(value) = <<>>)
  /\ UNCHANGED <<autoReadClipboard, sirenInput, sirenError, hasInitialisedFromClipboard,
                 effects, userTyped, inputSource, submits, screen, detailSiren, fetches,
                 company, view>>
  /\ UNCHANGED <<resolverVars, rendererVars, renderVars, copyVars, linkVars>>

\* useCompanyData delivers the record: CompanyDetail renders again and, for
\* the details view, CompanyDetailsView is given the form's templateOverride
\* and starts the French and the English render
DetailsLoaded(record) ==
  /\ screen = "detail"
  /\ company.isLoading
  /\ company' = CompanyState(<<record>>, FALSE, FALSE)
  /\ view' = CompanyDetail(company')
  /\ IF view' = "details"
     THEN /\ data' = record
          /\ fetched' = record
          /\ templateOverride' = formTemplate
          /\ pc' = [r \in Languages |-> "start"]
          /\ UNCHANGED <<outputTemplate, firstLevel, representative, walk, built, markdown>>
     ELSE UNCHANGED renderVars
  /\ UNCHANGED <<autoReadClipboard, sirenInput, sirenError, hasInitialisedFromClipboard,
                 formTemplate, effects, userTyped, inputSource, savedEmpty, submits,
                 screen, detailSiren, fetches>>
  /\ UNCHANGED <<resolverVars, rendererVars, copyVars, linkVars>>

\* the user leaves the details view: its renders are dropped
PopDetailsView ==
  /\ screen = "detail"
  /\ screen' = "form"
  /\ detailSiren' = <<>>
  /\ company' = CompanyState(<<>>, FALSE, FALSE)
  /\ view' = ""
  /\ data' = CompanyData(<<>>, <<>>)
  /\ fetched' = data'
  /\ templateOverride' = <<>>
  /\ pc' = [r \in Languages |-> "idle"]
  /\ firstLevel' = [r \in Languages |-> <<>>]
  /\ representative' = [r \in Languages |-> <<>>]
  /\ walk' = [r \in Languages |-> noWalk]
  /\ built' = [r \in Languages |-> <<>>]
  /\ markdown' = [r \in Languages |-> <<>>]
  /\ UNCHANGED <<autoReadClipboard, sirenInput, sirenError, hasInitialisedFromClipboard,
                 formTemplate, effects, userTyped, inputSource, savedEmpty, submits,
                 fetches, outputTemplate>>
  /\ UNCHANGED <<resolverVars, rendererVars, copyVars, linkVars>>

\* the form mounted with clipboard reading switched off:
\* templateOverride starts as preferences.outputTemplate ?? ""
InitTemplateEditor ==
  /\ IdleResolver
  /\ IdleRenderer
  /\ IdleCopy
  /\ IdleLink
  /\ data = CompanyData(<<>>, <<>>)
  /\ fetched = data
  /\ templateOverride = <<>>
  /\ outputTemplate \in {<<>>, <<preferenceTemplate>>}
  /\ pc = [r \in Languages |-> "idle"]
  /\ firstLevel = [r \in Languages |-> <<>>]
  /\ representative = [r \in Languages |-> <<>>]
  /\ walk = [r \in Languages |-> noWalk]
  /\ built = [r \in Languages |-> <<>>]
  /\ markdown = [r \in Languages |-> <<>>]
  /\ autoReadClipboard = FALSE
  /\ sirenInput = <<>>
  /\ sirenError = ""
  /\ hasInitialisedFromClipboard = FALSE
  /\ formTemplate = IF outputTemplate = <<>> THEN <<<<>>>> ELSE outputTemplate
  /\ effects = <<>>
  /\ userTyped = FALSE
  /\ inputSource = "initial"
  /\ savedEmpty = FALSE
  /\ submits = 0
  /\ screen = "form"
  /\ detailSiren = <<>>
  /\ fetches = 0
  /\ company = CompanyState(<<>>, FALSE, FALSE)
  /\ view = ""

NextTemplateEditor ==
  \/ \E newValue \in {Digits(9), Digits(5)} : TypeInput(newValue)
  \/ \E value \in EditorValues : handleSave(value)
  \/ handleAction
  \/ \E record \in EditorRecords : DetailsLoaded(record)
  \/ \E r \in Languages : StartRender(r)
  \/ \E r \in Languages, answer \in EditorAnswers : FetchReturn(r, answer)
  \/ PopDetailsView

SpecTemplateEditor == InitTemplateEditor /\ [][NextTemplateEditor]_vars

----------------------------------------------------------------------------
(* Properties of extractRepresentativeInfo, checked under SpecResolver.    *)
(* extractArg is the composition object the last call received, selected   *)
(* the pouvoir it chose and extracted the representative it returned.      *)

\* C5: when the pouvoirs list holds an entry whose role code is "5132" or
\* "73", the call selects the first such entry in input order, whatever the
\* other entries are and whichever of the two codes comes first.
C5_FirstPresidentSelected ==
  (calls > 0 /\ extractArg.tag = "array") =>
    \A i \in 1..Len(extractArg.items) :
      ( /\ extractArg.items[i].roleEntreprise \in {"5132", "73"}
        /\ \A j \in 1..(i - 1) : extractArg.items[j].roleEntreprise \notin {"5132", "73"} )
      => /\ selected = <<extractArg.items[i]>>
         /\ extracted = <<classify(extractArg.items[i])>>

\* a "73" entry ahead of a "5132" entry: the "73" entry was selected
C5_Witness ==
  /\ calls > 0
  /\ extractArg.tag = "array"
  /\ Len(extractArg.items) = 2
  /\ extractArg.items[1].roleEntreprise = "73"
  /\ extractArg.items[2].roleEntreprise = "5132"
  /\ extractArg.items[1] # extractArg.items[2]
  /\ selected = <<extractArg.items[1]>>
  /\ extracted # <<>>
  /\ extracted[1].name = "Alice DURAND"

\* C6: when no entry has role code "5132" or "73", the call selects the entry
\* whose role code has the lowest index in <<"5132", "73", "51", "30", "53">>,
\* a code outside that list ranking behind every listed one, and among
\* entries of equal rank the one that comes first in input order.
C6_PriorityOrderSelected ==
  LET items == extractArg.items
      rank(p) == IF \E k \in 1..Len(rolePriority) : rolePriority[k] = p.roleEntreprise
                 THEN CHOOSE k \in 1..Len(rolePriority) : rolePriority[k] = p.roleEntreprise
                 ELSE Len(rolePriority) + 1
  IN  ( /\ calls > 0
        /\ extractArg.tag = "array"
        /\ Len(items) > 0
        /\ \A i \in 1..Len(items) : items[i].roleEntreprise \notin {"5132", "73"} )
      => \E i \in 1..Len(items) :
           /\ selected = <<items[i]>>
           /\ extracted = <<classify(items[i])>>
           /\ \A j \in 1..Len(items) : rank(items[j]) >= rank(items[i])
           /\ \A j \in 1..(i - 1) : rank(items[j]) > rank(items[i])

\* an entry with an unlisted code ahead of a "53" entry: the "53" entry was
\* selected
C6_Witness ==
  /\ calls > 0
  /\ extractArg.tag = "array"
  /\ Len(extractArg.items) = 2
  /\ extractArg.items[1].roleEntreprise = "5141"
  /\ extractArg.items[2].roleEntreprise = "53"
  /\ selected = <<extractArg.items[2]>>
  /\ extracted # <<>>
  /\ extracted[1].name = "Jean DUPONT"

\* C7: for a composition object without a pouvoirs field, with a pouvoirs
\* that is not a list, or with an empty list, the call returns the fallback
\* representative: placeholder name and role, isHolding false, gender null.
C7_FallbackWithoutPouvoirs ==
  (calls > 0 /\ (extractArg.tag # "array" \/ extractArg.items = <<>>)) =>
    /\ selected = <<>>
    /\ Len(extracted) = 1
    /\ extracted[1].name = FALLBACK_REPRESENTATIVE_NAME
    /\ extracted[1].role = FALLBACK_REPRESENTATIVE_ROLE
    /\ extracted[1].isHolding = FALSE
    /\ extracted[1].gender = "null"
    /\ extracted[1].holdingRepresentative = <<>>
    /\ composition = extractArg

\* a pouvoirs that is not a list: the fallback was returned
C7_Witness ==
  /\ calls > 0
  /\ extractArg.tag = "string"
  /\ Len(extracted) = 1
  /\ extracted[1].name = FALLBACK_REPRESENTATIVE_NAME
  /\ extracted[1].isHolding = FALSE

----------------------------------------------------------------------------
(* Properties of renderTemplate, checked under SpecRenderer.               *)

\* C8: the render replaces every placeholder {{ name }}, blanks around the
\* name allowed, by the value of name when name is a key of the variable set
\* and by the empty string otherwise; no placeholder stays in the output.
C8_PlaceholdersReplaced ==
  LET RECURSIVE expected(_, _)
      expected(t, i) ==
        IF i > Len(t) THEN <<>>
        ELSE LET m == matchAt(t, i)
             IN  IF m.ok
                 THEN (IF m.key \in DOMAIN variables THEN variables[m.key] ELSE <<>>)
                      \o expected(t, m.next)
                 ELSE <<t[i]>> \o expected(t, i + 1)
  IN  rendered => output = expected(template, 1)

----------------------------------------------------------------------------
(* Properties of the walk up a holding chain, as buildMarkdownAsync runs   *)
(* it.  firstLevel[r] is what extractRepresentativeInfo returned for the   *)
(* record rendered (the original, top-level holding when a walk starts),   *)
(* walk[r] the walk and representative[r] the representative rendered.     *)

\* C1: whatever the provider answers (chains, cycles, missing records,
\* records without composition), one walk makes at most MAX_DEPTH fetches
\* and never raises; each answer either makes it return a result or leaves
\* it one fetch further with a remaining depth that is lower and still
\* positive, so it returns after at most MAX_DEPTH answers.
C1_WalkBoundedAndReturns ==
  [][\A r \in Languages :
       /\ walk'[r].fetches <= MAX_DEPTH
       /\ pc'[r] # "rejected"
       /\ pc[r] = "fetching" =>
            \/ /\ pc'[r] = "done"
               /\ walk'[r].stop # ""
               /\ Len(walk'[r].result) = 1
               /\ Len(markdown'[r]) = 1
            \/ /\ pc'[r] = "fetching"
               /\ walk'[r].fetches = walk[r].fetches + 1
               /\ walk'[r].depth < walk[r].depth
               /\ walk'[r].depth >= 1]_vars

\* a walk that used up the depth: MAX_DEPTH fetches, then it returned
C1_Witness ==
  \E r \in Languages :
    /\ pc[r] = "done"
    /\ walk[r].stop = "depth"
    /\ walk[r].fetches = MAX_DEPTH
    /\ walk[r].result # <<>>

\* C2: a walk that stops on a visited identifier, on exhausted depth or on a
\* record without usable composition returns the original holding's name
\* and role, isHolding true and no tail.
C2_StopsKeepOriginalHolding ==
  \A r \in Languages :
    walk[r].stop \in {"visited", "depth", "noComposition"} =>
      /\ Len(firstLevel[r]) = 1
      /\ Len(walk[r].result) = 1
      /\ walk[r].result[1].name = firstLevel[r][1].name
      /\ walk[r].result[1].role = firstLevel[r][1].role
      /\ walk[r].result[1].isHolding = TRUE
      /\ walk[r].result[1].holdingRepresentative = <<>>
      /\ representative[r] = walk[r].result

\* the cycle A -> B -> A: stopped on the visited identifier after two fetches
C2_Witness ==
  \E r \in Languages :
    /\ walk[r].stop = "visited"
    /\ walk[r].fetches = 2
    /\ Len(walk[r].result) = 1
    /\ walk[r].result[1].name = "Holding Company"
    /\ walk[r].result[1].holdingRepresentative = <<>>

\* C3: a fetch that fails, with NotFound or with TransientError, at any step
\* of the walk, gives one and the same outcome: the original holding alone
\* is returned and rendered, and no error reaches the caller.
C3_FetchFailuresDegradeAlike ==
  \A r \in Languages :
    walk[r].stop \in {"NotFound", "TransientError"} =>
      /\ pc[r] = "done"
      /\ Len(firstLevel[r]) = 1
      /\ Len(representative[r]) = 1
      /\ representative[r] = walk[r].result
      /\ representative[r][1].name = firstLevel[r][1].name
      /\ representative[r][1].role = firstLevel[r][1].role
      /\ representative[r][1].isHolding = TRUE
      /\ representative[r][1].holdingRepresentative = <<>>
      /\ Len(markdown[r]) = 1

\* a TransientError on the third fetch of a walk
C3_Witness ==
  \E r \in Languages :
    /\ walk[r].stop = "TransientError"
    /\ walk[r].fetches = 3
    /\ pc[r] = "done"
    /\ Len(representative[r]) = 1
    /\ representative[r][1].name = "Holding Company"

\* C4: whatever chain the walk resolved through, the representative returned
\* carries the name and role of the original holding; a tail is attached
\* exactly when a natural person was reached, and it is that person, taken
\* from the last record fetched, never an intermediate holding; the rendered
\* variables name the original holding and that person.
C4_OriginalHoldingAndTerminalPerson ==
  \A r \in Languages :
    walk[r].stop # "" =>
      LET rep == representative[r][1]
          tail == rep.holdingRepresentative
          last == pouvoirsOf(walk[r].last.personneMorale[1].composition)
      IN  /\ Len(representative[r]) = 1
          /\ rep.name = firstLevel[r][1].name
          /\ rep.role = firstLevel[r][1].role
          /\ rep.isHolding = TRUE
          /\ (tail # <<>>) <=> (walk[r].stop = "person")
          /\ walk[r].stop = "person" =>
               /\ Len(tail) = 1
               /\ tail[1].isHolding = FALSE
               /\ tail[1].holdingRepresentative = <<>>
               /\ \E i \in 1..Len(last) :
                    /\ last[i].kind \in {"individu", "personnePhysique"}
                    /\ tail[1].name = formatRepresentativeName(last[i].prenom, last[i].nom)
               /\ built[r][1].holding_representative_name = <<tail[1].name>>
          /\ built[r][1].representative_name = <<firstLevel[r][1].name>>
          /\ built[r][1].representative_role = <<firstLevel[r][1].role>>

\* a chain of two intermediate holdings that ends on a natural person
C4_Witness ==
  \E r \in Languages :
    /\ walk[r].stop = "person"
    /\ walk[r].fetches = 3
    /\ Len(representative[r]) = 1
    /\ representative[r][1].name = "Holding Company"
    /\ Len(representative[r][1].holdingRepresentative) = 1
    /\ representative[r][1].holdingRepresentative[1].name = "Alice DURAND"

----------------------------------------------------------------------------
(* Properties of the variable sets the builders produce.                   *)

\* C9: the variable set built for a corporate record and the one built for
\* an individual record have the same keys, in French and in English, and
\* these keys include every name AVAILABLE_TEMPLATE_VARIABLES advertises.
C9_SameKeysAllAdvertised ==
  \A r \in Languages :
    built[r] # <<>> =>
      /\ \A l \in Languages :
           /\ DOMAIN built[r][1] =
                DOMAIN personnePhysiqueVariables(CompanyData(<<>>, <<PersonnePhysique("1")>>), l)
           /\ DOMAIN built[r][1] =
                DOMAIN createPersonneMoraleTemplateVariables(
                         CompanyData(<<PersonneMorale(noComposition)>>, <<>>), fallback, l)
      /\ AVAILABLE_TEMPLATE_VARIABLES.common \subseteq DOMAIN built[r][1]
      /\ AVAILABLE_TEMPLATE_VARIABLES.personneMorale \subseteq DOMAIN built[r][1]
      /\ AVAILABLE_TEMPLATE_VARIABLES.personnePhysique \subseteq DOMAIN built[r][1]

\* the variable set of an individual record, built for the English render
C9_Witness ==
  /\ data.personnePhysique # <<>>
  /\ pc["en"] = "done"
  /\ built["en"] # <<>>
  /\ "holding_representative_verb" \in DOMAIN built["en"][1]
  /\ "personal_address_line" \in DOMAIN built["en"][1]

----------------------------------------------------------------------------
(* Properties of buildMarkdownAsync when the awaited walk may reject,      *)
(* checked under SpecWalkMayReject.                                        *)

\* C10: the asynchronous render of a corporate record never fails because of
\* the walk: when the walk rejects, or ends on a failed fetch, the render
\* completes with the first-level holding representative, holding-only
\* sentence, and gives the text that representative renders to.
C10_RenderSurvivesWalkFailure ==
  \A r \in Languages :
    /\ pc[r] # "rejected"
    /\ walk[r].stop \in {"rejected", "NotFound", "TransientError"} =>
         /\ pc[r] = "done"
         /\ Len(firstLevel[r]) = 1
         /\ Len(representative[r]) = 1
         /\ walk[r].stop = "rejected" => representative[r] = firstLevel[r]
         /\ representative[r][1].name = firstLevel[r][1].name
         /\ representative[r][1].holdingRepresentative = <<>>
         /\ built[r] # <<>>
         /\ built[r][1].representative_line =
              representativeSentence(firstLevel[r][1], r).line
         /\ representativeSentence(firstLevel[r][1], r).form = "holding"
         /\ markdown[r] =
              <<renderPersonneMorale(
                  createPersonneMoraleTemplateVariables(data, firstLevel[r][1], r),
                  chosenOverride(normalizedTemplate(templateOverride), outputTemplate), r)>>

\* the walk rejected on its second fetch and the render completed
C10_Witness ==
  \E r \in Languages :
    /\ walk[r].stop = "rejected"
    /\ walk[r].fetches = 2
    /\ pc[r] = "done"
    /\ Len(markdown[r]) = 1
    /\ representative[r] = firstLevel[r]

----------------------------------------------------------------------------
(* Properties of the two entry points, checked under SpecEntryPoints.      *)
(* pc[r] is "doneSync" when buildMarkdown returned and "done" when         *)
(* buildMarkdownAsync resolved.                                            *)

\* C11: buildMarkdown and buildMarkdownAsync render the individual template
\* with the individual variables when the record has an individual payload,
\* the corporate template with the corporate variables when it has a
\* corporate payload, and return the text "No information to display."
\* when it has neither; without a user template the template is the default
\* of that kind and language.
C11_PayloadDecidesRender ==
  \A r \in Languages :
    pc[r] \in {"done", "doneSync"} =>
      LET supplied == { t[1] : t \in {templateOverride, outputTemplate} \ {<<>>} }
          noUserTemplate == templateOverride = <<>> /\ outputTemplate = <<>>
      IN  /\ Len(markdown[r]) = 1
          /\ data.personnePhysique # <<>> =>
               /\ built[r] = <<personnePhysiqueVariables(data, r)>>
               /\ built[r][1].company_type = <<"personne_physique">>
               /\ \E t \in supplied \cup {PERSONNE_PHYSIQUE_TEMPLATES(r)} :
                    markdown[r][1] = renderTemplate(t, built[r][1])
               /\ noUserTemplate =>
                    markdown[r][1] = renderTemplate(PERSONNE_PHYSIQUE_TEMPLATES(r), built[r][1])
          /\ (data.personnePhysique = <<>> /\ data.personneMorale # <<>>) =>
               /\ Len(built[r]) = 1
               /\ built[r][1].company_type = <<"personne_morale">>
               /\ built[r][1].company_name = <<data.personneMorale[1].denomination>>
               /\ \E t \in supplied \cup {PERSONNE_MORALE_TEMPLATES(r)} :
                    markdown[r][1] = renderTemplate(t, built[r][1])
               /\ noUserTemplate =>
                    markdown[r][1] = renderTemplate(PERSONNE_MORALE_TEMPLATES(r), built[r][1])
          /\ (data.personnePhysique = <<>> /\ data.personneMorale = <<>>) =>
               markdown[r] = <<<<"No information to display.">>>>

\* buildMarkdown returned the sentinel for a record without payload
C11_Witness ==
  /\ data.personnePhysique = <<>>
  /\ data.personneMorale = <<>>
  /\ pc["fr"] = "doneSync"
  /\ markdown["fr"] = <<<<"No information to display.">>>>

\* C12: a fetch of the holding-chain walk is issued only by
\* buildMarkdownAsync and only when the first-level representative is a
\* holding with an extracted identifier; buildMarkdown starts no walk, and
\* what it renders never has a tail.
C12_OnlyAsyncHoldingWalks ==
  \A r \in Languages :
    /\ (walk[r].fetches > 0 \/ walk[r].inFlight) =>
         /\ pc[r] \in {"fetching", "done"}
         /\ Len(firstLevel[r]) = 1
         /\ firstLevel[r][1].isHolding = TRUE
         /\ firstLevel[r][1].corporateSiren \in Sirens
         /\ walk[r].holdingSiren = firstLevel[r][1].corporateSiren
    /\ pc[r] = "doneSync" =>
         /\ walk[r] = noWalk
         /\ representative[r] # <<>> =>
              /\ representative[r] = firstLevel[r]
              /\ representative[r][1].holdingRepresentative = <<>>
              /\ built[r][1].holding_representative_name = <<>>
              /\ representativeSentence(representative[r][1], r).form # "holdingWithRepresentative"

\* buildMarkdown rendered a holding that has an identifier, without a walk
C12_Witness ==
  /\ pc["en"] = "doneSync"
  /\ Len(representative["en"]) = 1
  /\ representative["en"][1].isHolding = TRUE
  /\ representative["en"][1].corporateSiren \in Sirens
  /\ walk["en"].fetches = 0
  /\ built["en"][1].holding_representative_name = <<>>

\* C13: the template of a render is the one passed in the options when one
\* is passed, else the template stored in the preferences when that is not
\* blank, else the default template of the record's kind and of the
\* language asked for.
C13_TemplatePrecedence ==
  \A r \in Languages :
    (pc[r] \in {"done", "doneSync"} /\ built[r] # <<>>) =>
      LET nonBlank(t) == \E i \in 1..Len(t) : t[i] \notin {" ", "\n"}
          option == IF pc[r] = "doneSync" THEN templateOverride
                    ELSE IF templateOverride # <<>> /\ nonBlank(templateOverride[1])
                         THEN templateOverride ELSE <<>>
          default == IF data.personnePhysique # <<>> THEN PERSONNE_PHYSIQUE_TEMPLATES(r)
                     ELSE PERSONNE_MORALE_TEMPLATES(r)
          expected == IF option # <<>> THEN option[1]
                      ELSE IF outputTemplate # <<>> /\ nonBlank(outputTemplate[1])
                           THEN outputTemplate[1]
                           ELSE default
      IN  markdown[r] = <<renderTemplate(expected, built[r][1])>>

\* an option and a stored template together: the option was rendered
C13_Witness ==
  /\ templateOverride = <<customTemplate>>
  /\ outputTemplate = <<preferenceTemplate>>
  /\ data.personneMorale # <<>>
  /\ pc["fr"] = "done"
  /\ built["fr"] # <<>>
  /\ markdown["fr"] = <<renderTemplate(customTemplate, built["fr"][1])>>
  /\ markdown["fr"] # <<renderTemplate(preferenceTemplate, built["fr"][1])>>

----------------------------------------------------------------------------
(* Properties of the two renders the details view starts together,         *)
(* checked under SpecConcurrent.  fetched is the record as both renders    *)
(* received it.                                                            *)

C15_SameResolvedRepresentative ==
  ( /\ pc["fr"] = "done"
    /\ pc["en"] = "done"
    /\ representative["fr"] # <<>>
    /\ representative["en"] # <<>> )
  => /\ representative["fr"][1].name = representative["en"][1].name
     /\ representative["fr"][1].isHolding = representative["en"][1].isHolding
     /\ representative["fr"][1].holdingRepresentative
          = representative["en"][1].holdingRepresentative
     /\ built["fr"][1].holding_representative_name
          = built["en"][1].holding_representative_name

----------------------------------------------------------------------------
(* Further properties of extractRepresentativeInfo, under SpecResolver.    *)

\* C16: when the selected pouvoir carries a natural-person descriptor, in
\* the individu shape or in the personnePhysique shape, the gender returned
\* is F for the marker "2", M for the marker "1" and null for any other or
\* a missing marker.
C16_GenderFromMarker ==
  ( /\ calls > 0
    /\ selected # <<>>
    /\ selected[1].kind \in {"individu", "personnePhysique"} )
  => extracted[1].gender = IF selected[1].genre = "2" THEN "F"
                           ELSE IF selected[1].genre = "1" THEN "M"
                           ELSE "null"

----------------------------------------------------------------------------
(* Properties of the representative sentence, checked under Spec on the    *)
(* variable set built[r] of the representative rendered.                   *)

\* C17: in French and in English the representative_line has exactly one of
\* three forms: the holding-with-tail sentence exactly when the
\* representative is a holding with a tail, the holding-only sentence
\* exactly when it is a holding without tail, and the natural-person
\* sentence exactly when it is no holding; each names the representative,
\* and the first also the tail.
C17_OneSentenceForm ==
  \A r \in Languages :
    (pc[r] = "done" /\ representative[r] # <<>>) =>
      LET rep == representative[r][1]
          line == built[r][1].representative_line
          has(x) == \E i \in 1..Len(line) : line[i] = x
          withTail == IF r = "fr"
                      THEN line[1] = "Représentée aux fins des présentes par la société "
                           /\ has(", elle-même représentée par ")
                      ELSE line[1] = "Represented by the company "
                           /\ has(", itself represented by ")
          holdingAlone == IF r = "fr"
                          THEN line[1] = "Représentée aux fins des présentes par "
                               /\ has(" en tant que ") /\ ~has(" en sa qualité de ")
                          ELSE line[1] = "Represented by the company "
                               /\ has(", which warrants that ")
          person == IF r = "fr"
                    THEN line[1] = "Représentée aux fins des présentes par "
                         /\ has(" en sa qualité de ")
                    ELSE line[1] = "Represented by " /\ has(", who warrants that ")
                         /\ ~has(", itself represented by ")
      IN  /\ withTail <=> (rep.isHolding /\ rep.holdingRepresentative # <<>>)
          /\ holdingAlone <=> (rep.isHolding /\ rep.holdingRepresentative = <<>>)
          /\ person <=> ~rep.isHolding
          /\ line[2] = rep.name
          /\ withTail => has(rep.holdingRepresentative[1].name)

\* a French render of a holding with a tail, in the holding-with-tail form
C17_Witness ==
  /\ pc["fr"] = "done"
  /\ Len(representative["fr"]) = 1
  /\ representative["fr"][1].isHolding = TRUE
  /\ representative["fr"][1].holdingRepresentative # <<>>
  /\ \E i \in 1..Len(built["fr"][1].representative_line) :
       built["fr"][1].representative_line[i] = ", elle-même représentée par "

C19_AgreementFollowsActingPerson ==
  \A r \in Languages :
    (pc[r] = "done" /\ representative[r] # <<>>) =>
      LET rep == representative[r][1]
          line == built[r][1].representative_line
          has(x) == \E i \in 1..Len(line) : line[i] = x
          feminine == IF r = "fr" THEN has("habilitée") ELSE has("she")
          masculine == IF r = "fr" THEN has("habilité") ELSE has("he")
          agreesWith(gender) ==
            IF gender = "F" THEN feminine /\ ~masculine ELSE masculine /\ ~feminine
      IN  IF ~rep.isHolding THEN agreesWith(rep.gender)
          ELSE IF rep.holdingRepresentative # <<>>
               THEN /\ rep.gender = "null"
                    /\ agreesWith(rep.holdingRepresentative[1].gender)
               ELSE ~feminine /\ ~masculine

\* a French render of a holding whose tail is a woman, agreed in the feminine
C19_Witness ==
  /\ pc["fr"] = "done"
  /\ Len(representative["fr"]) = 1
  /\ representative["fr"][1].isHolding = TRUE
  /\ representative["fr"][1].holdingRepresentative # <<>>
  /\ representative["fr"][1].holdingRepresentative[1].gender = "F"
  /\ \E i \in 1..Len(built["fr"][1].representative_line) :
       built["fr"][1].representative_line[i] = "habilitée"

\* C20: every representative the resolver returns to a render and every
\* representative a walk returns has a tail only when it is a holding, and
\* its tail is a natural person without a tail of its own, whatever the
\* number of holdings the walk fetched.
C20_TailIsFlat ==
  \A r \in Languages :
    LET flat(rep) ==
          rep.holdingRepresentative # <<>> =>
            /\ rep.isHolding
            /\ Len(rep.holdingRepresentative) = 1
            /\ ~rep.holdingRepresentative[1].isHolding
            /\ rep.holdingRepresentative[1].holdingRepresentative = <<>>
    IN  /\ \A i \in 1..Len(firstLevel[r]) : flat(firstLevel[r][i])
        /\ \A i \in 1..Len(representative[r]) : flat(representative[r][i])
        /\ \A i \in 1..Len(walk[r].result) : flat(walk[r].result[i])

\* a walk that fetched two holdings or more and returned a natural person
C20_Witness ==
  \E r \in Languages :
    /\ walk[r].stop = "person"
    /\ walk[r].fetches >= 2
    /\ Len(walk[r].result) = 1
    /\ walk[r].result[1].isHolding = TRUE
    /\ walk[r].result[1].holdingRepresentative # <<>>
    /\ ~walk[r].result[1].holdingRepresentative[1].isHolding

----------------------------------------------------------------------------
(* Properties of the order of the fetches of one walk, checked under Spec. *)

\* C21: the fetches of one walk are strictly sequential: a step issues at
\* most one fetch, a fetch is in flight only while the render awaits it, and
\* a further fetch is issued only in the step that receives the answer to
\* the previous one, a company record, and resolves its composition to a
\* holding whose identifier is the one then fetched.
C21_FetchesSequential ==
  [][\A r \in Languages :
       /\ walk'[r].fetches <= walk[r].fetches + 1
       /\ walk'[r].inFlight => (pc'[r] = "fetching" /\ walk'[r].stop = "")
       /\ (walk'[r].fetches = walk[r].fetches + 1 /\ walk[r].fetches >= 1) =>
            /\ walk[r].inFlight
            /\ walk'[r].last.type = "CompanyRecord"
            /\ walk'[r].last.personneMorale # <<>>
            /\ LET found == extractRepresentativeInfo(
                              walk'[r].last.personneMorale[1].composition).rep
               IN  /\ found.isHolding
                   /\ walk'[r].current = found.corporateSiren
                   /\ walk[r].current \in walk'[r].visited]_vars

\* a walk awaiting its third fetch, issued after two answers
C21_Witness ==
  \E r \in Languages :
    /\ pc[r] = "fetching"
    /\ walk[r].inFlight
    /\ walk[r].fetches = 3
    /\ walk[r].last.type = "CompanyRecord"
    /\ Cardinality(walk[r].visited) = 2

----------------------------------------------------------------------------
(* Frame of extractRepresentativeInfo, checked under SpecResolver.         *)

\* C27: extractRepresentativeInfo only selects: it starts no walk, and when
\* it has returned the composition object it was called on is as it was
\* when the call started, its pouvoirs in the same order.
C27_CompositionUnchanged ==
  calls > 0 =>
    /\ composition = extractArg
    /\ \A r \in Languages : walk[r] = noWalk

----------------------------------------------------------------------------
(* The single pass of renderTemplate, checked under SpecRenderer.          *)

\* C29: renderTemplate does not scan the text it inserts: the output is the
\* one obtained with the braces of every value made inert before the render
\* and put back after it, so a value that holds a {{name}} token is in the
\* output as it is.
C29_InsertedTextNotScanned ==
  rendered =>
    LET inert(c) == IF c = "{" THEN "(" ELSE IF c = "}" THEN ")" ELSE c
        brace(c) == IF c = "(" THEN "{" ELSE IF c = ")" THEN "}" ELSE c
        masked == [n \in DOMAIN variables |->
                     [i \in 1..Len(variables[n]) |-> inert(variables[n][i])]]
        out == renderTemplate(template, masked)
    IN  output = [i \in 1..Len(out) |-> brace(out[i])]

\* a render of {{a}} whose value is the token {{b}}, b being defined too:
\* the output is that token
C29_Witness ==
  /\ rendered
  /\ template = <<"{", "{", "a", "}", "}">>
  /\ "b" \in DOMAIN variables
  /\ variables["a"] = <<"{", "{", "b", "}", "}">>
  /\ output = <<"{", "{", "b", "}", "}">>

----------------------------------------------------------------------------
(* Properties of markdownToHtml and markdownToPlainText, checked under     *)
(* SpecCopy.                                                               *)

\* C25: on a text without asterisks each conversion gives a result that the
\* same conversion leaves as it is; on any text the conversions touch the
\* marker asterisks only: the other characters are in the results as they
\* are in the text, and so is an asterisk that stands alone between blanks
\* or text edges.
C25_ConversionsTouchMarkersOnly ==
  copyText # <<>> =>
    LET html == copyHtml[1]
        text == copyText[1]
        isTag(c) == c \in {"<strong>", "</strong>", "<em>", "</em>", "<p>", "</p>"}
        others(t) == SelectSeq(t, LAMBDA c : c # "*" /\ ~isTag(c))
        alone(t, i) == /\ t[i] = "*"
                       /\ i = 1 \/ isWhiteSpace(t[i - 1]) \/ isTag(t[i - 1])
                       /\ i = Len(t) \/ isWhiteSpace(t[i + 1]) \/ isTag(t[i + 1])
        numberAlone(t) == Cardinality({i \in 1..Len(t) : alone(t, i)})
    IN  /\ (\A i \in 1..Len(copyMarkdown) : copyMarkdown[i] # "*") =>
             /\ markdownToPlainText(text) = text
             /\ markdownToHtml(html) = html
        /\ others(text) = others(copyMarkdown)
        /\ others(html) = others(copyMarkdown)
        /\ numberAlone(text) = numberAlone(copyMarkdown)
        /\ numberAlone(html) = numberAlone(copyMarkdown)

----------------------------------------------------------------------------
(* Properties of buildPappersSearchUrl, checked under SpecLink.            *)

\* C26: the query of the URL is the first usable identifier among the SIREN
\* (its digits, when they are exactly 9), the SIRET (its digits, when they
\* are exactly 14) and the denomination (trimmed, when that is not empty),
\* in this order; the function returns undefined exactly when none of the
\* three is usable.
C26_FirstUsableIdentifier ==
  pappersCalled =>
    LET isString(v) == v.tag = "string"
        digits(v) == SelectSeq(v.text, LAMBDA c : c \in {"0", "1", "2", "3", "4", "5",
                                                          "6", "7", "8", "9"})
        sirenUsable == isString(params.siren) /\ Len(digits(params.siren)) = 9
        siretUsable == isString(params.siret) /\ Len(digits(params.siret)) = 14
        textUsable == /\ isString(params.denomination)
                      /\ \E i \in 1..Len(params.denomination.text) :
                           params.denomination.text[i] # " "
        query == IF sirenUsable THEN digits(params.siren)
                 ELSE IF siretUsable THEN digits(params.siret)
                 ELSE trim(params.denomination.text)
    IN  /\ pappersUrl = <<>> <=> ~(sirenUsable \/ siretUsable \/ textUsable)
        /\ pappersUrl # <<>> =>
             pappersUrl[1] = <<"https://www.pappers.fr/recherche?q=">>
                             \o encodeURIComponent(query)

\* a call with a usable SIREN written with blanks and a usable SIRET: the
\* query is the 9 digits of the SIREN
C26_Witness ==
  /\ pappersCalled
  /\ params.siren = StringValue(Digits(3) \o <<" ">> \o Digits(3) \o <<" ">> \o Digits(3))
  /\ params.siret = StringValue(Digits(14))
  /\ pappersUrl = <<<<"https://www.pappers.fr/recherche?q=">> \o Digits(3) \o Digits(3)
                    \o Digits(3)>>

----------------------------------------------------------------------------
(* Properties of the search form and of CompanyDetail, checked under       *)
(* SpecSearchForm.                                                         *)

\* C22: in the search form an input that is empty, or that
\* validateAndExtractSiren rejects, never leads to a company fetch:
\* handleAction sets the field error and does not navigate; a fetch starts
\* only in a step of handleAction on an input that validates, for the SIREN
\* extracted from it, with the detail view pushed and the error cleared.
C22_NoFetchWithoutValidSiren ==
  [][ /\ (submits' = submits + 1
          /\ (sirenInput = <<>> \/ validateAndExtractSiren(sirenInput) = <<>>))
        => /\ sirenError' # ""
           /\ screen' = "form"
           /\ fetches' = fetches
      /\ (fetches' # fetches \/ (screen = "form" /\ screen' = "detail"))
        => /\ submits' = submits + 1
           /\ validateAndExtractSiren(sirenInput) # <<>>
           /\ detailSiren' = validateAndExtractSiren(sirenInput)
           /\ screen' = "detail"
           /\ fetches' = fetches + 1
           /\ sirenError' = "" ]_vars

\* a rejected submission, then an accepted one
C22_Witness ==
  /\ submits = 2
  /\ fetches = 1
  /\ screen = "detail"
  /\ sirenError = ""
  /\ detailSiren = <<Digits(9)>>

\* C23: once the user has typed in the field, no clipboard read that
\* completes afterwards replaces the typed input: the content of the field
\* is what the user typed.
C23_TypedInputKept ==
  userTyped => inputSource = "typed"

\* C30: CompanyDetail shows one view for each (data, isLoading, error); the
\* details view only without error, after loading, for a record with a
\* corporate or an individual payload; a loaded record with neither payload
\* gets the no-data view, never the details view.
C30_OneViewPerState ==
  screen = "detail" =>
    LET hasPayload == /\ company.data # <<>>
                      /\ \/ company.data[1].personneMorale # <<>>
                         \/ company.data[1].personnePhysique # <<>>
    IN  /\ view \in {"error", "noData", "loading", "details", "empty"}
        /\ view = "details" => (~company.error /\ ~company.isLoading /\ hasPayload)
        /\ (~company.error /\ ~company.isLoading /\ company.data # <<>> /\ ~hasPayload)
             => view = "noData"
        /\ (company.data # <<>> /\ ~hasPayload) => view # "details"

\* a loaded record with neither payload on screen
C30_Witness ==
  /\ screen = "detail"
  /\ view = "noData"
  /\ ~company.isLoading
  /\ company.data = <<CompanyData(<<>>, <<>>)>>

----------------------------------------------------------------------------
(* Property of the template editor, checked under SpecTemplateEditor.      *)

\* C24: after the user saved an empty template in the editor, every render
\* that follows uses the built-in default template of the record's kind and
\* of the language, whatever template is stored in the preferences.
C24_EmptySaveRestoresDefault ==
  \A r \in Languages :
    (savedEmpty /\ pc[r] = "done" /\ built[r] # <<>>) =>
      markdown[r] =
        <<renderTemplate(IF data.personnePhysique # <<>> THEN PERSONNE_PHYSIQUE_TEMPLATES(r)
                         ELSE PERSONNE_MORALE_TEMPLATES(r),
                         built[r][1])>>

============================================================================
